---- MODULE Spec2Model ----
(***************************************************************************)
(* The image-analysis endpoint of personalmoneyapp: seven revisions of one *)
(* Cloudflare Pages Function, onRequest(context).  A request is routed by  *)
(* its method; a POST checks the credential, reads the JSON body, checks   *)
(* and forwards the image to one upstream vision model, and turns the      *)
(* model's text into a list of transaction records.                        *)
(*                                                                         *)
(* JavaScript values are records of one shape (tag t, number n, string s,  *)
(* array items, object members f).  Numbers are fixed-point, in            *)
(* thousandths: 24.35 is 24350.  Strings are TLA+ strings.  The model's    *)
(* text is a sequence of tokens (brackets, braces, commas, fences, prose,  *)
(* whitespace, bundles of flat members, keys, literals), on which the      *)
(* regular expressions and JSON.parse of the source are computed.          *)
(***************************************************************************)
EXTENDS Integers, Sequences, FiniteSets, TLC

VARIABLES
    rev,            \* which revision of the handler is deployed
    env,            \* context.env: which entries are set
    today,          \* new Date().toISOString().split('T')[0]
    pc,             \* "idle" | "awaiting" (suspended at the upstream call) | "responded"
    request,        \* context.request: method and body
    envRead,        \* the env entries the handler has read for this request
    bodyRead,       \* whether request.json() has been called
    upstreamCalls,  \* upstream calls issued for this request
    upstreamReq,    \* the image payload of the call in flight
    upstream,       \* how the upstream call settled
    parsed,         \* the array handed to filter/map (or none)
    mapped,         \* the records after filter/map, before deduplication
    response,       \* the Response the handler returned
    escaped         \* an exception left the handler

vars == <<rev, env, today, pc, request, envRead, bodyRead, upstreamCalls,
          upstreamReq, upstream, parsed, mapped, response, escaped>>

-----------------------------------------------------------------------------
(* Bounds of the model *)

\* the longest JSON array the upstream model replies with
MaxElems == 2

-----------------------------------------------------------------------------
(* JavaScript values *)

Undefined == [t |-> "undefined", n |-> 0, s |-> "", items |-> <<>>, f |-> <<>>]
Null      == [t |-> "null",      n |-> 0, s |-> "", items |-> <<>>, f |-> <<>>]
Num(m)    == [t |-> "number",    n |-> m, s |-> "", items |-> <<>>, f |-> <<>>]
Str(x)    == [t |-> "string",    n |-> 0, s |-> x,  items |-> <<>>, f |-> <<>>]
Bool(b)   == [t |-> "boolean",   n |-> IF b THEN 1 ELSE 0, s |-> "", items |-> <<>>, f |-> <<>>]
Arr(xs)   == [t |-> "array",     n |-> 0, s |-> "", items |-> xs,   f |-> <<>>]
\* an object is its members in source order, each <<key, value>>
Obj(ms)   == [t |-> "object",    n |-> 0, s |-> "", items |-> <<>>, f |-> ms]

\* ToBoolean: what x && .., x || .. and !x test
Truthy(v) ==
    CASE v.t = "undefined" -> FALSE
      [] v.t = "null"      -> FALSE
      [] v.t = "boolean"   -> v.n = 1
      [] v.t = "number"    -> v.n # 0
      [] v.t = "string"    -> v.s # ""
      [] OTHER             -> TRUE

\* a property read v.key throws a TypeError on null and undefined
ReadThrows(v) == v.t \in {"null", "undefined"}

RECURSIVE LastMember(_, _, _)
LastMember(ms, key, i) ==
    IF i = 0 THEN Undefined
    ELSE IF ms[i][1] = key THEN ms[i][2]
    ELSE LastMember(ms, key, i - 1)

\* v.key of a value that can be read: a later duplicate key wins, a
\* missing key and any key of a primitive or of an array are undefined
Get(v, key) == IF v.t = "object" THEN LastMember(v.f, key, Len(v.f)) ELSE Undefined

\* a || b
OrElse(a, b) == IF Truthy(a) THEN a ELSE b

-----------------------------------------------------------------------------
(* Strings *)

\* the characters i..j of s that exist (1-based, both ends included)
Slice(s, i, j) ==
    LET lo == IF i < 1 THEN 1 ELSE i
        hi == IF j > Len(s) THEN Len(s) ELSE j
    IN  IF lo > hi THEN "" ELSE SubSeq(s, lo, hi)

Ch(s, i) == Slice(s, i, i)

startsWith(s, p) == Len(s) >= Len(p) /\ Slice(s, 1, Len(p)) = p

\* String.prototype.indexOf for a one-character needle, 1-based; 0 when absent
RECURSIVE indexFrom(_, _, _)
indexFrom(s, c, i) ==
    IF i > Len(s) THEN 0
    ELSE IF SubSeq(s, i, i) = c THEN i
    ELSE indexFrom(s, c, i + 1)

indexOf(s, c) == indexFrom(s, c, 1)

\* String.prototype.includes
includes(s, p) == \E i \in 0..(Len(s) - Len(p)) : SubSeq(s, i + 1, i + Len(p)) = p

Upper == "ABCDEFGHIJKLMNOPQRSTUVWXYZ"
Lower == "abcdefghijklmnopqrstuvwxyz"
Digits == "0123456789"

UpperSet == {SubSeq(Upper, i, i) : i \in 1..26}
LowerSet == {SubSeq(Lower, i, i) : i \in 1..26}
DigitSet == {SubSeq(Digits, i, i) : i \in 1..10}

IsLetter(c) == c \in UpperSet \/ c \in LowerSet
IsDigit(c)  == c \in DigitSet

LowerOfUpper == [c \in UpperSet |-> SubSeq(Lower, indexOf(Upper, c), indexOf(Upper, c))]

lowerChar(c) == IF c \in UpperSet THEN LowerOfUpper[c] ELSE c

RECURSIVE toLowerCase(_)
toLowerCase(s) == IF s = "" THEN "" ELSE lowerChar(SubSeq(s, 1, 1)) \o toLowerCase(Tail(s))

\* the number of commas: image.split(',') has one part more
Commas(s) == Cardinality({i \in 1..Len(s) : Ch(s, i) = ","})

-----------------------------------------------------------------------------
(* Numbers *)

NaN == [nan |-> TRUE, n |-> 0]
Finite(m) == [nan |-> FALSE, n |-> m]

DigitValue == [c \in DigitSet |-> indexOf(Digits, c) - 1]

DigitVal(c) == DigitValue[c]

\* the digits of s from position i on: how many there are
RECURSIVE DigitRun(_, _)
DigitRun(s, i) == IF i <= Len(s) /\ IsDigit(Ch(s, i)) THEN 1 + DigitRun(s, i + 1) ELSE 0

RECURSIVE IntOf(_, _, _)
IntOf(s, i, k) == IF k = 0 THEN 0 ELSE IntOf(s, i, k - 1) * 10 + DigitVal(Ch(s, i + k - 1))

\* the first three fraction digits, as thousandths (further digits are below
\* the model's resolution)
Thousandths(s, i, k) ==
    LET d(j) == IF j <= k THEN DigitVal(Ch(s, i + j - 1)) ELSE 0
    IN  d(1) * 100 + d(2) * 10 + d(3)

RECURSIVE SkipSpaces(_, _)
SkipSpaces(s, i) == IF i <= Len(s) /\ Ch(s, i) = " " THEN SkipSpaces(s, i + 1) ELSE i

\* parseFloat of a string: leading blanks, a sign, then the longest prefix
\* digits[.digits] or .digits; whatever follows is ignored; NaN when there is
\* no such prefix.  (Exponents and Infinity are not among the inputs.)
\* the number whose ni integer digits start at i1 and whose nf fraction
\* digits follow the point
decimalAt(s, neg, i1, ni, nf) ==
    IF ni = 0 /\ nf = 0 THEN NaN
    ELSE IF neg THEN Finite(0 - (IntOf(s, i1, ni) * 1000 + Thousandths(s, i1 + ni + 1, nf)))
    ELSE Finite(IntOf(s, i1, ni) * 1000 + Thousandths(s, i1 + ni + 1, nf))

fractionAt(s, neg, i1, ni) ==
    decimalAt(s, neg, i1, ni,
              IF i1 + ni <= Len(s) /\ Ch(s, i1 + ni) = "." THEN DigitRun(s, i1 + ni + 1) ELSE 0)

digitsAt(s, neg, i1) == fractionAt(s, neg, i1, DigitRun(s, i1))

signAt(s, i0) ==
    digitsAt(s, i0 <= Len(s) /\ Ch(s, i0) = "-",
             IF i0 <= Len(s) /\ Ch(s, i0) \in {"-", "+"} THEN i0 + 1 ELSE i0)

parseFloatStr(s) == signAt(s, SkipSpaces(s, 1))

\* parseFloat(v): the argument is first converted to a string.  An array
\* converts to its elements joined by commas, so only its first element is
\* looked at; null, undefined, booleans and objects convert to text with no
\* numeric prefix.
RECURSIVE parseFloat(_)
parseFloat(v) ==
    CASE v.t = "number" -> Finite(v.n)
      [] v.t = "string" -> parseFloatStr(v.s)
      [] v.t = "array"  -> IF Len(v.items) = 0 \/ v.items[1].t \in {"null", "undefined"}
                           THEN NaN
                           ELSE parseFloat(v.items[1])
      [] OTHER          -> NaN

\* Numbers are IEEE doubles.  The model holds a decimal n/u by its numerator
\* (u = 1000 for an amount as parsed, u = 100 for an amount in cents); the
\* double it stands for is the one nearest to n/u, and the operators below
\* compute with the distance between the two.
Pow2Mod[s \in 0..70] == IF s = 0 THEN 1 ELSE (2 * Pow2Mod[s - 1]) % 1000

\* the binary exponent of n/u: the e with 2^e <= n/u < 2^(e+1), for n > 0
RECURSIVE expUp(_, _), expDown(_, _)
expUp(n, u) == IF n >= 2 * u THEN 1 + expUp(n, 2 * u) ELSE 0
expDown(n, u) == IF n < u THEN expDown(2 * n, u) - 1 ELSE 0
exponent(n, u) == IF n >= u THEN expUp(n, u) ELSE expDown(n, u)

\* the double nearest to n/u minus n/u, in units of 2^(exponent - 52) / u:
\* r is what is left of n * 2^(52 - exponent) after the division by u
nearest(r, u) == IF 2 * r < u THEN 0 - r ELSE u - r
ulpError(n, u) == nearest((n * Pow2Mod[52 - exponent(n, u)]) % u, u)

\* x * 100 of an amount x of k cents and a half: the product is k + 0.5 plus
\* 100 times the error of x, rounded to a double; it is below k + 0.5 when
\* that error is more than half a unit in the last place of the product
belowHalf(m) ==
    0 - ulpError(m, 1000) > 5 * 2^(exponent(2 * (m \div 10) + 1, 2) - exponent(m, 1000))

\* Math.round(x * 100) / 100, on thousandths; the result is a whole number
\* of cents, in thousandths
roundCents(m) ==
    IF m % 10 = 5 /\ belowHalf(m) THEN (m \div 10) * 10 ELSE ((m + 5) \div 10) * 10

-----------------------------------------------------------------------------
(* The revisions of the handler and what differs between them *)

Revisions == {"gemini", "llama", "workersai", "geminiSplit", "maverick", "nemotron", "llava"}

\* the revisions that call the provider with fetch (the others run the AI binding)
FetchRevisions == {"gemini", "geminiSplit", "maverick", "nemotron"}

EnvEntries == {"GEMINI_API_KEY", "OPENROUTER_API_KEY", "AI"}

\* the env entry a POST tests before anything else
credentialEntry(rv) ==
    CASE rv \in {"gemini", "geminiSplit"}        -> "GEMINI_API_KEY"
      [] rv \in {"maverick", "nemotron"}         -> "OPENROUTER_API_KEY"
      [] rv \in {"llama", "workersai", "llava"}  -> "AI"

\* the env entry the GET probe reports
probeEntry(rv) ==
    CASE rv = "gemini"                                  -> "GEMINI_API_KEY"
      [] rv \in {"geminiSplit", "maverick", "nemotron"} -> "OPENROUTER_API_KEY"
      [] rv \in {"llama", "workersai", "llava"}         -> "AI"

\* the key under which the GET probe reports it
probeFlag(rv) == IF rv \in {"llama", "workersai", "llava"} THEN "hasAI" ELSE "hasApiKey"

probeMessage(rv) ==
    CASE rv = "gemini"                                  -> "Gemini API endpoint ready"
      [] rv \in {"geminiSplit", "maverick", "nemotron"} -> "OpenRouter API ready"
      [] rv \in {"llama", "llava"}                      -> "Cloudflare Workers AI endpoint ready"
      [] rv = "workersai"                               -> "Cloudflare Workers AI ready"

configErrorText(rv) ==
    CASE rv = "gemini"      -> "API key not configured. Please add GEMINI_API_KEY to Cloudflare environment variables."
      [] rv = "geminiSplit" -> "GEMINI_API_KEY not configured"
      [] rv \in {"maverick", "nemotron"} -> "OPENROUTER_API_KEY not configured"
      [] rv \in {"llama", "llava"} -> "Workers AI not configured. Please add AI binding in Cloudflare settings."
      [] rv = "workersai"   -> "Workers AI not configured. Please add AI binding in Cloudflare Pages settings."

sourceName(rv) ==
    CASE rv \in {"gemini", "geminiSplit"} -> "gemini-2.0-flash"
      [] rv = "llama"     -> "cloudflare-llama-3.2-vision"
      [] rv = "workersai" -> "cloudflare-workers-ai"
      [] rv = "maverick"  -> "openrouter-llama-4-maverick"
      [] rv = "nemotron"  -> "openrouter-nvidia-nemotron-vl"
      [] rv = "llava"     -> "cloudflare-llava-1.5"

upstreamErrorPrefix(rv) ==
    IF rv \in {"gemini", "geminiSplit"} THEN "Gemini API error: " ELSE "OpenRouter API error: "

-----------------------------------------------------------------------------
(* Responses *)

corsHeaders ==
    { <<"Access-Control-Allow-Origin", "*">>,
      <<"Access-Control-Allow-Methods", "GET, POST, OPTIONS">>,
      <<"Access-Control-Allow-Headers", "Content-Type">> }

jsonHeaders == corsHeaders \cup { <<"Content-Type", "application/json">> }

\* a body: null, or a JSON object holding the keys of its field keys
NullBody ==
    [isNull |-> TRUE, keys |-> {}, error |-> "", details |-> "", success |-> FALSE,
     transactions |-> <<>>, count |-> 0, source |-> "", status |-> "", message |-> "",
     flag |-> FALSE]

JsonBody == [NullBody EXCEPT !.isNull = FALSE]

\* no status given: a Response is 200
NoResponse == [status |-> 0, headers |-> {}, body |-> NullBody]

optionsResponse == [status |-> 200, headers |-> corsHeaders, body |-> NullBody]

\* a variant whose probe fails when the entry is not set
probeNeedsEntry(rv, e) ==
    [status |-> IF e[probeEntry(rv)] THEN 200 ELSE 500, headers |-> jsonHeaders,
     body |-> [JsonBody EXCEPT !.keys = {"status", "message", probeFlag(rv)},
                               !.status = IF e[probeEntry(rv)] THEN "ok" ELSE "error",
                               !.message = probeMessage(rv),
                               !.flag = e[probeEntry(rv)]]]

probeResponse(rv, e) ==
    [status |-> 200, headers |-> jsonHeaders,
     body |-> [JsonBody EXCEPT !.keys = {"status", "message", probeFlag(rv)},
                               !.status = "ok",
                               !.message = probeMessage(rv),
                               !.flag = e[probeEntry(rv)]]]

methodNotAllowed ==
    [status |-> 405, headers |-> jsonHeaders,
     body |-> [JsonBody EXCEPT !.keys = {"error"}, !.error = "Method not allowed"]]

configError(rv) ==
    [status |-> 500, headers |-> jsonHeaders,
     body |-> [JsonBody EXCEPT !.keys = {"error", "success", "transactions"},
                               !.error = configErrorText(rv)]]

badRequest(msg) ==
    [status |-> 400, headers |-> jsonHeaders,
     body |-> [JsonBody EXCEPT !.keys = {"error"}, !.error = msg]]

\* a variant that reports a provider error the way the catch block does,
\* without the provider's own text
upstreamErrorNoDetails(rv, code, errorText) ==
    [status |-> 500, headers |-> jsonHeaders,
     body |-> [JsonBody EXCEPT !.keys = {"error", "success", "transactions"},
                               !.error = upstreamErrorPrefix(rv) \o code]]

\* the provider answered, but not with a 2xx status
upstreamError(rv, code, errorText) ==
    [status |-> 500, headers |-> jsonHeaders,
     body |-> [JsonBody EXCEPT !.keys = {"error", "details", "success", "transactions"},
                               !.error = upstreamErrorPrefix(rv) \o code,
                               !.details = errorText]]

\* a variant that sets only the content type on the error it reports
catchResponseNoCors(msg) ==
    [status |-> 500, headers |-> { <<"Content-Type", "application/json">> },
     body |-> [JsonBody EXCEPT !.keys = {"error", "success", "transactions"},
                               !.error = msg]]

\* the handler's catch block
catchResponse(msg) ==
    [status |-> 500, headers |-> jsonHeaders,
     body |-> [JsonBody EXCEPT !.keys = {"error", "success", "transactions"},
                               !.error = msg]]

\* a variant that reports success for whatever it returns
successAlways(rv, txs) ==
    [status |-> 200, headers |-> jsonHeaders,
     body |-> [JsonBody EXCEPT !.keys = {"success", "transactions", "count", "source"},
                               !.success = TRUE,
                               !.transactions = txs,
                               !.count = Len(txs),
                               !.source = sourceName(rv)]]

successResponse(rv, txs) ==
    [status |-> 200, headers |-> jsonHeaders,
     body |-> [JsonBody EXCEPT !.keys = {"success", "transactions", "count", "source"},
                               !.success = Len(txs) > 0,
                               !.transactions = txs,
                               !.count = Len(txs),
                               !.source = sourceName(rv)]]

-----------------------------------------------------------------------------
(* The image of a POST *)

Base64Set == UpperSet \cup LowerSet \cup DigitSet \cup {"+", "/"}

RECURSIVE StripSpaces(_)
StripSpaces(s) ==
    IF s = "" THEN ""
    ELSE IF Ch(s, 1) = " " THEN StripSpaces(Tail(s))
    ELSE Ch(s, 1) \o StripSpaces(Tail(s))

\* atob throws InvalidCharacterError (forgiving-base64 decode): blanks are
\* dropped, one or two trailing "=" are dropped from a length that is a
\* multiple of 4, and then the length must not be 1 modulo 4 and every
\* character must be of the base64 alphabet
atobThrows(d) ==
    LET s  == StripSpaces(d)
        n  == Len(s)
        s1 == IF n % 4 = 0 /\ n > 0 /\ Ch(s, n) = "="
              THEN (IF Ch(s, n - 1) = "=" THEN Slice(s, 1, n - 2) ELSE Slice(s, 1, n - 1))
              ELSE s
    IN  \/ Len(s1) % 4 = 1
        \/ \E i \in 1..Len(s1) : Ch(s1, i) \notin Base64Set

RECURSIVE LetterRun(_, _)
LetterRun(s, i) == IF i <= Len(s) /\ IsLetter(Ch(s, i)) THEN 1 + LetterRun(s, i + 1) ELSE 0

\* image.match(/^data:(image\/[a-zA-Z]+);base64,(.+)$/): matched, and groups 1, 2
dataUrlMatch(s) ==
    LET p     == "data:image/"
        k     == LetterRun(s, Len(p) + 1)
        semi  == Len(p) + k + 1
        rest  == semi + Len(";base64,")
        ok    == /\ startsWith(s, p)
                 /\ k >= 1
                 /\ Slice(s, semi, rest - 1) = ";base64,"
                 /\ Len(s) >= rest
                 /\ \A i \in rest..Len(s) : Ch(s, i) # "\n"
    IN  [matched |-> ok,
         mime    |-> IF ok THEN Slice(s, Len("data:") + 1, semi - 1) ELSE "",
         data    |-> IF ok THEN Slice(s, rest, Len(s)) ELSE ""]

\* header.match(/data:([^;]+)/): group 1 of the leftmost match, "" when none
headerMime(h) ==
    LET starts == {i \in 1..Len(h) : /\ Slice(h, i, i + 4) = "data:"
                                     /\ i + 5 <= Len(h)
                                     /\ Ch(h, i + 5) # ";"}
    IN  IF starts = {} THEN ""
        ELSE LET i == CHOOSE x \in starts : \A y \in starts : x <= y
                 stop == IF \E j \in (i + 5)..Len(h) : Ch(h, j) = ";"
                         THEN (CHOOSE j \in (i + 5)..Len(h) :
                                  Ch(h, j) = ";" /\ \A q \in (i + 5)..(j - 1) : Ch(h, q) # ";") - 1
                         ELSE Len(h)
             IN  Slice(h, i + 5, stop)

\* header.match(/:(.*?);/): matched, and group 1
colonMime(h) ==
    LET c == indexOf(h, ":")
        semis == {j \in 1..Len(h) : j > c /\ Ch(h, j) = ";"}
        ok == c > 0 /\ semis # {}
    IN  [matched |-> ok,
         mime    |-> IF ok
                     THEN Slice(h, c + 1, (CHOOSE j \in semis : \A q \in semis : j <= q) - 1)
                     ELSE ""]

\* the outcome of a stretch of the handler: it returned a Response, it threw,
\* or it goes on to call the provider
NoCall == [mime |-> "", data |-> "", url |-> ""]
Return(r)  == [kind |-> "return", resp |-> r, error |-> "", call |-> NoCall]
Throw(msg) == [kind |-> "throw", resp |-> NoResponse, error |-> msg, call |-> NoCall]
Call(c)    == [kind |-> "call", resp |-> NoResponse, error |-> "", call |-> c]

\* part_000: a data URL is split at its first comma; a data URL with no comma
\* and an empty payload are rejected
imageGemini(image) ==
    IF image.t # "string" THEN Throw("image.startsWith is not a function")
    ELSE LET s == image.s
             isUrl == startsWith(s, "data:")
             comma == indexOf(s, ",")
             base64Data == IF isUrl THEN Slice(s, comma + 1, Len(s)) ELSE s
             hm == headerMime(Slice(s, 1, comma - 1))
             mimeType == IF isUrl /\ hm # "" THEN hm ELSE "image/png"
         IN  IF isUrl /\ comma = 0 THEN Return(badRequest("Invalid data URL format"))
             ELSE IF base64Data = "" THEN Return(badRequest("No base64 data found"))
             ELSE Call([mime |-> mimeType, data |-> base64Data, url |-> ""])

\* the llama and llava revisions: an empty payload is rejected, then atob decodes
imageWorkers(image) ==
    IF image.t # "string" THEN Throw("image.startsWith is not a function")
    ELSE LET s == image.s
             comma == indexOf(s, ",")
             base64Data == IF startsWith(s, "data:")
                           THEN (IF comma # 0 THEN Slice(s, comma + 1, Len(s)) ELSE "")
                           ELSE s
         IN  IF base64Data = "" THEN Return(badRequest("No base64 data found"))
             ELSE IF atobThrows(base64Data) THEN Throw("InvalidCharacterError")
             ELSE Call([mime |-> "", data |-> base64Data, url |-> ""])

\* the payload the split revisions take from the image
splitBase64(s) ==
    LET m == dataUrlMatch(s)
    IN  IF m.matched THEN m.data
        ELSE IF startsWith(s, "data:") /\ Commas(s) = 1 THEN Slice(s, indexOf(s, ",") + 1, Len(s))
        ELSE s

splitMime(s) ==
    LET m == dataUrlMatch(s)
        c == colonMime(Slice(s, 1, indexOf(s, ",") - 1))
    IN  IF m.matched THEN m.mime
        ELSE IF startsWith(s, "data:") /\ Commas(s) = 1 /\ c.matched THEN c.mime
        ELSE "image/jpeg"

\* part_001, Workers AI with members: no check of the payload before atob
imageWorkersSplit(image) ==
    IF image.t # "string" THEN Throw("image.match is not a function")
    ELSE IF atobThrows(splitBase64(image.s)) THEN Throw("InvalidCharacterError")
    ELSE Call([mime |-> "", data |-> splitBase64(image.s), url |-> ""])

\* part_001, Gemini with members: no check of the payload at all
imageGeminiSplit(image) ==
    IF image.t # "string" THEN Throw("image.match is not a function")
    ELSE Call([mime |-> splitMime(image.s), data |-> splitBase64(image.s), url |-> ""])

\* the OpenRouter revisions: the image is sent as a data URL, as it is
imageOpenRouter(image) ==
    IF image.t # "string" THEN Throw("image.startsWith is not a function")
    ELSE Call([mime |-> "", data |-> "",
               url |-> IF startsWith(image.s, "data:") THEN image.s
                       ELSE "data:image/png;base64," \o image.s])

imageStage(rv, image) ==
    CASE rv = "gemini"                   -> imageGemini(image)
      [] rv \in {"llama", "llava"}       -> imageWorkers(image)
      [] rv = "workersai"                -> imageWorkersSplit(image)
      [] rv = "geminiSplit"              -> imageGeminiSplit(image)
      [] rv \in {"maverick", "nemotron"} -> imageOpenRouter(image)

-----------------------------------------------------------------------------
(* The model's text, as tokens, and what the handler does to find JSON in it *)

\* a token: "[", "]", "{", "}", ",", "fence_json" (three backquotes and json),
\* "fence" (three backquotes), "ws" (whitespace),
\* "prose" (words with no bracket or brace), "members" (the flat members of
\* an object, "date":"..","amount":5, as the object v), "key" ("name":
\* before a nested value) or "literal" (a string, number or null, v)
Tok(k)      == [k |-> k, v |-> Undefined]
Members(ms) == [k |-> "members", v |-> Obj(ms)]
Key(name)   == [k |-> "key", v |-> Str(name)]
Literal(v)  == [k |-> "literal", v |-> v]

RECURSIVE DropLeading(_, _)
DropLeading(ts, k) ==
    IF ts # <<>> /\ Head(ts).k = k THEN DropLeading(Tail(ts), k) ELSE ts

RECURSIVE DropTrailing(_, _)
DropTrailing(ts, k) ==
    IF ts # <<>> /\ ts[Len(ts)].k = k THEN DropTrailing(SubSeq(ts, 1, Len(ts) - 1), k) ELSE ts

\* String.prototype.trim
trim(ts) == DropTrailing(DropLeading(ts, "ws"), "ws")

\* text.replace(/<fence>\s*/gi, ''): every fence goes, with the whitespace after it
RECURSIVE removeFence(_, _)
removeFence(ts, fence) ==
    IF ts = <<>> THEN <<>>
    ELSE IF Head(ts).k = fence THEN removeFence(DropLeading(Tail(ts), "ws"), fence)
    ELSE <<Head(ts)>> \o removeFence(Tail(ts), fence)

\* content.trim(), then both fence patterns replaced by '', then trim() again:
\* the opening fence tagged json and the bare triple backquote
cleanContent(ts) == trim(removeFence(removeFence(trim(ts), "fence_json"), "fence"))

Positions(ts, k) == {i \in 1..Len(ts) : ts[i].k = k}
Least(S) == CHOOSE x \in S : \A y \in S : x <= y
Most(S)  == CHOOSE x \in S : \A y \in S : x >= y

NoMatch == [matched |-> FALSE, text |-> <<>>]

\* text.match(/\[[\s\S]*\]/) and text.match(/\{[\s\S]*\}/): from the first
\* opening bracket to the last closing one
matchGreedy(ts, open, close) ==
    LET os == Positions(ts, open)
        cs == Positions(ts, close)
    IN  IF os = {} \/ cs = {} \/ Most(cs) < Least(os) THEN NoMatch
        ELSE [matched |-> TRUE, text |-> SubSeq(ts, Least(os), Most(cs))]

\* text.match(/\[[\s\S]*?\]/): from the first opening bracket to the first
\* closing one after it
matchLazy(ts, open, close) ==
    LET os == Positions(ts, open)
        cs == IF os = {} THEN {} ELSE {j \in Positions(ts, close) : j > Least(os)}
    IN  IF cs = {} THEN NoMatch
        ELSE [matched |-> TRUE, text |-> SubSeq(ts, Least(os), Least(cs))]

\* JSON.parse -------------------------------------------------------------

ParseFail == [ok |-> FALSE, v |-> Undefined, next |-> 0]
ParseOk(v, next) == [ok |-> TRUE, v |-> v, next |-> next]

KindAt(ts, i) == IF i <= Len(ts) THEN ts[i].k ELSE "end"

RECURSIVE ParseValue(_, _), ParseElements(_, _, _), ParseMembers(_, _, _)

\* value ::= array | object | literal
ParseValue(ts, i) ==
    CASE KindAt(ts, i) = "[" ->
            IF KindAt(ts, i + 1) = "]" THEN ParseOk(Arr(<<>>), i + 2)
            ELSE ParseElements(ts, i + 1, <<>>)
      [] KindAt(ts, i) = "{" ->
            IF KindAt(ts, i + 1) = "}" THEN ParseOk(Obj(<<>>), i + 2)
            ELSE ParseMembers(ts, i + 1, <<>>)
      [] KindAt(ts, i) = "literal" -> ParseOk(ts[i].v, i + 1)
      [] OTHER -> ParseFail

\* array ::= "[" value ("," value)* "]"
ParseElements(ts, i, acc) ==
    LET r == ParseValue(ts, i)
    IN  IF ~r.ok THEN ParseFail
        ELSE IF KindAt(ts, r.next) = "]" THEN ParseOk(Arr(Append(acc, r.v)), r.next + 1)
        ELSE IF KindAt(ts, r.next) = "," THEN ParseElements(ts, r.next + 1, Append(acc, r.v))
        ELSE ParseFail

\* object ::= "{" member ("," member)* "}", member ::= members | key value
ParseMembers(ts, i, acc) ==
    LET r == CASE KindAt(ts, i) = "members" -> ParseOk(Obj(acc \o ts[i].v.f), i + 1)
               [] KindAt(ts, i) = "key" ->
                     LET val == ParseValue(ts, i + 1)
                     IN  IF val.ok
                         THEN ParseOk(Obj(Append(acc, <<ts[i].v.s, val.v>>)), val.next)
                         ELSE ParseFail
               [] OTHER -> ParseFail
    IN  IF ~r.ok THEN ParseFail
        ELSE IF KindAt(ts, r.next) = "}" THEN ParseOk(r.v, r.next + 1)
        ELSE IF KindAt(ts, r.next) = "," THEN ParseMembers(ts, r.next + 1, r.v.f)
        ELSE ParseFail

\* JSON.parse(text): whitespace between tokens is insignificant; anything but
\* exactly one value is a SyntaxError
JSONparse(ts) ==
    LET us == SelectSeq(ts, LAMBDA t : t.k # "ws")
        r  == ParseValue(us, 1)
    IN  IF r.ok /\ r.next = Len(us) + 1 THEN [ok |-> TRUE, v |-> r.v]
        ELSE [ok |-> FALSE, v |-> Undefined]

-----------------------------------------------------------------------------
(* mapCategory *)

overrideRules ==
    << <<"tangerpay", "laundry">>, <<"qut", "education">>,
       <<"queensland university", "education">>, <<"iglu", "accommodation">> >>

\* the llama and llava revisions also take "food" and "grocery"
keywordRules(rv) ==
    << <<"eating out", "food">>, <<"takeaway", "food">> >>
    \o (IF rv \in {"llama", "llava"} THEN << <<"food", "food">> >> ELSE <<>>)
    \o << <<"groceries", "groceries">> >>
    \o (IF rv \in {"llama", "llava"} THEN << <<"grocery", "groceries">> >> ELSE <<>>)
    \o << <<"education", "education">>, <<"shopping", "shopping">>,
          <<"transfer", "transfers">>, <<"payment", "transfers">>,
          <<"entertainment", "entertainment">>, <<"transport", "vehicle">>,
          <<"health", "health">> >>

\* part_000 knows three more supermarkets
fallbackRules(rv) ==
    << <<"kfc", "food">>, <<"mcdonald", "food">>, <<"cafe", "food">>,
       <<"mart", "groceries">>, <<"coles", "groceries">>, <<"woolworths", "groceries">> >>
    \o (IF rv = "gemini"
        THEN << <<"sunlit", "groceries">>, <<"hanaro", "groceries">>, <<"metro", "groceries">> >>
        ELSE <<>>)
    \o << <<"target", "shopping">> >>

\* the category of the first rule whose substring the text includes, "" when none
RECURSIVE FirstMatch(_, _, _)
FirstMatch(text, rules, i) ==
    IF i > Len(rules) THEN ""
    ELSE IF includes(text, rules[i][1]) THEN rules[i][2]
    ELSE FirstMatch(text, rules, i + 1)

\* (x || '').toLowerCase() is a TypeError when x is truthy and not a string
lowerThrows(v) == Truthy(v) /\ v.t # "string"
lowerOf(v) == IF Truthy(v) THEN toLowerCase(v.s) ELSE ""

mapCategoryThrows(name, originalCat) == lowerThrows(name) \/ lowerThrows(originalCat)

\* a variant that looks the merchant up before the category keywords
mapCategoryMerchantFirst(rv, name, originalCat) ==
    LET lowerName == lowerOf(name)
        lowerCat  == lowerOf(originalCat)
        byOverride == FirstMatch(lowerName, overrideRules, 1)
        byKeyword  == FirstMatch(lowerCat, keywordRules(rv), 1)
        byFallback == FirstMatch(lowerName, fallbackRules(rv), 1)
    IN  IF byOverride # "" THEN byOverride
        ELSE IF byFallback # "" THEN byFallback
        ELSE IF byKeyword # "" THEN byKeyword
        ELSE "other"

mapCategory(rv, name, originalCat) ==
    LET lowerName == lowerOf(name)
        lowerCat  == lowerOf(originalCat)
        byOverride == FirstMatch(lowerName, overrideRules, 1)
        byKeyword  == FirstMatch(lowerCat, keywordRules(rv), 1)
        byFallback == FirstMatch(lowerName, fallbackRules(rv), 1)
    IN  IF byOverride # "" THEN byOverride
        ELSE IF byKeyword # "" THEN byKeyword
        ELSE IF byFallback # "" THEN byFallback
        ELSE "other"

-----------------------------------------------------------------------------
(* filter, map and deduplication *)

\* the element fields a revision reads the amount and the description from
amountKey(rv)      == IF rv \in {"llama", "llava"} THEN "amt" ELSE "amount"
descriptionKey(rv) == IF rv \in {"llama", "llava"} THEN "name" ELSE "description"
categoryKey(rv)    == IF rv \in {"llama", "llava"} THEN "cat" ELSE "category"

\* tx => tx.amount && parseFloat(tx.amount) > 0 && tx.description
\* x > 0 of a number: false for NaN
positive(f) == ~f.nan /\ f.n > 0

keeps(rv, tx) ==
    /\ Truthy(Get(tx, amountKey(rv)))
    /\ positive(parseFloat(Get(tx, amountKey(rv))))
    /\ Truthy(Get(tx, descriptionKey(rv)))

\* a variant that takes any type that is set for income
txTypeOfAnyType(rv, tx) ==
    IF rv \in {"llama", "llava"}
    THEN (IF Get(tx, "exp") = Bool(FALSE) THEN "income" ELSE "expense")
    ELSE (IF Truthy(Get(tx, "type")) THEN "income" ELSE "expense")

txTypeOf(rv, tx) ==
    IF rv \in {"llama", "llava"}
    THEN (IF Get(tx, "exp") = Bool(FALSE) THEN "income" ELSE "expense")
    ELSE (IF Get(tx, "type") = Str("income") THEN "income" ELSE "expense")

\* members && members[0]
firstMember(members) ==
    IF ~Truthy(members) THEN members
    ELSE IF members.t = "array" /\ Len(members.items) > 0 THEN members.items[1]
    ELSE IF members.t = "string" THEN Str(Ch(members.s, 1))
    ELSE Undefined

NoRecord ==
    [keys |-> {}, date |-> Undefined, description |-> Undefined, category |-> "",
     amount |-> 0, txType |-> "", payer |-> Undefined, involved |-> Undefined,
     splitType |-> Undefined, customItems |-> Undefined]

standardRecord(rv, tx, day) ==
    [NoRecord EXCEPT
        !.keys = {"date", "description", "category", "amount", "txType"},
        !.date = OrElse(Get(tx, "date"), Str(day)),
        !.description = IF rv \in {"llama", "llava"}
                        THEN OrElse(Get(tx, "name"), Str("Unknown"))
                        ELSE Get(tx, "description"),
        !.category = mapCategory(rv, Get(tx, descriptionKey(rv)), Get(tx, categoryKey(rv))),
        !.amount = roundCents(parseFloat(Get(tx, amountKey(rv))).n),
        !.txType = txTypeOf(rv, tx)]

\* a variant that does not fall back on the member list
splitRecordNoMembers(rv, tx, day, members) ==
    [standardRecord(rv, tx, day) EXCEPT
        !.keys = @ \cup {"payer", "involved", "splitType"},
        !.payer = OrElse(Get(tx, "payer"), Str("")),
        !.involved = OrElse(Get(tx, "involved"), Arr(<<>>)),
        !.splitType = OrElse(Get(tx, "splitType"), Str("equal"))]

\* the two revisions that take a member list add the split fields
splitRecord(rv, tx, day, members) ==
    [standardRecord(rv, tx, day) EXCEPT
        !.keys = @ \cup {"payer", "involved", "splitType"},
        !.payer = OrElse(OrElse(Get(tx, "payer"), firstMember(members)), Str("")),
        !.involved = OrElse(OrElse(Get(tx, "involved"), members), Arr(<<>>)),
        !.splitType = OrElse(Get(tx, "splitType"), Str("equal"))]

\* nemotron: tx.splitType === 'custom' && tx.customItems
isCustom(tx) == Get(tx, "splitType") = Str("custom") /\ Truthy(Get(tx, "customItems"))

customRecord(tx, day) ==
    [NoRecord EXCEPT
        !.keys = {"date", "description", "amount", "splitType", "payer", "customItems", "txType"},
        !.date = OrElse(Get(tx, "date"), Str(day)),
        !.description = Get(tx, "description"),
        !.amount = roundCents(parseFloat(Get(tx, "amount")).n),
        !.splitType = Str("custom"),
        !.payer = OrElse(Get(tx, "payer"), Str("")),
        !.customItems = Get(tx, "customItems"),
        !.txType = txTypeOf("nemotron", tx)]

\* the callback of map
toRecord(rv, tx, day, members) ==
    CASE rv \in {"workersai", "geminiSplit"} -> splitRecord(rv, tx, day, members)
      [] rv = "nemotron" /\ isCustom(tx)     -> customRecord(tx, day)
      [] OTHER                               -> standardRecord(rv, tx, day)

\* whether the callback of map throws on tx: only mapCategory can
toRecordThrows(rv, tx) ==
    /\ ~(rv = "nemotron" /\ isCustom(tx))
    /\ mapCategoryThrows(Get(tx, descriptionKey(rv)), Get(tx, categoryKey(rv)))

RECURSIVE MapSeq(_, _, _, _)
MapSeq(rv, txs, day, members) ==
    IF txs = <<>> THEN <<>>
    ELSE <<toRecord(rv, Head(txs), day, members)>> \o MapSeq(rv, Tail(txs), day, members)

\* parsed.filter(..).map(..): the records, or a TypeError (an element that is
\* null, a description or category that has no toLowerCase)
\* .map(..) of the elements the filter kept
mapKept(rv, kept, day, members) ==
    IF \E i \in 1..Len(kept) : toRecordThrows(rv, kept[i])
    THEN [threw |-> TRUE, records |-> <<>>]
    ELSE [threw |-> FALSE, records |-> MapSeq(rv, kept, day, members)]

filterMap(rv, txs, day, members) ==
    IF \E i \in 1..Len(txs) : ReadThrows(txs[i]) THEN [threw |-> TRUE, records |-> <<>>]
    ELSE mapKept(rv, SelectSeq(txs, LAMBDA tx : keeps(rv, tx)), day, members)

\* a === b of two values of different records: arrays and objects are equal
\* to themselves only
strictEq(a, b) == a = b /\ a.t \notin {"array", "object"}

abs(x) == IF x < 0 THEN 0 - x ELSE x

\* a - b < 0.01 of the doubles of k + 1 and k cents (k > 0): the subtraction
\* is exact, so the errors of the two doubles and of the double 0.01 decide
\* (the double of k + 1 cents minus the double of k cents) minus one cent,
\* in units of 2^(-59) / 100
gapError(k) ==
    ulpError(k + 1, 100) * 2^(exponent(k + 1, 100) + 7)
      - ulpError(k, 100) * 2^(exponent(k, 100) + 7)

oneCentApart(k) == gapError(k) < ulpError(1, 100)

\* Math.abs(a - b) < 0.01 of two amounts of whole cents
lessThanCent(a, b) ==
    CASE a = b                          -> TRUE
      [] abs(a - b) > 10                -> FALSE
      [] a = 0 \/ b = 0                 -> FALSE
      [] OTHER                          -> oneCentApart((IF a < b THEN a ELSE b) \div 10)

\* a variant that takes two records of one date and description for the same
\* transaction whatever their amounts
sameTransactionAnyAmount(t, item) ==
    /\ strictEq(t.date, item.date)
    /\ strictEq(t.description, item.description)

\* the callback of findIndex: t is the same transaction as item
sameTransaction(t, item) ==
    /\ strictEq(t.date, item.date)
    /\ strictEq(t.description, item.description)
    /\ lessThanCent(t.amount, item.amount)

\* index === self.findIndex(..): no earlier record is the same transaction
\* (a record is always the same as itself unless its date or description is
\* an array or object, which is still equal to itself by reference)
isFirst(records, i) == \A j \in 1..(i - 1) : ~sameTransaction(records[j], records[i])

\* a variant that exempts no record
exemptNone(rv, r) == FALSE

\* nemotron keeps every custom record
exempt(rv, r) == rv = "nemotron" /\ r.splitType = Str("custom")

\* self.filter((item, index, self) => exempt || index === self.findIndex(..))
RECURSIVE dedupFrom(_, _, _)
dedupFrom(rv, records, i) ==
    IF i > Len(records) THEN <<>>
    ELSE (IF exempt(rv, records[i]) \/ isFirst(records, i) THEN <<records[i]>> ELSE <<>>)
         \o dedupFrom(rv, records, i + 1)

dedup(rv, records) == dedupFrom(rv, records, 1)

-----------------------------------------------------------------------------
(* From the provider's reply to the candidate array *)

\* how the upstream call settled: it threw, it answered with a status that is
\* not 2xx, its body was not JSON, or its body was JSON.  A JSON body is the
\* chain of properties it holds on the way to the text (path) and the text.
NoUpstream == [kind |-> "none", code |-> "", errorText |-> "", path |-> <<>>, text |-> <<>>]
Threw(msg)            == [NoUpstream EXCEPT !.kind = "throws", !.errorText = msg]
NotOk(code, errText)  == [NoUpstream EXCEPT !.kind = "status", !.code = code, !.errorText = errText]
NotJSON               == [NoUpstream EXCEPT !.kind = "notJSON"]
Body(path, text)      == [NoUpstream EXCEPT !.kind = "body", !.path = path, !.text = text]

geminiPath     == <<"candidates", "0", "content", "parts", "0", "text">>
openRouterPath == <<"choices", "0", "message", "content">>

textPath(rv) ==
    CASE rv \in {"gemini", "geminiSplit"}       -> geminiPath
      [] rv \in {"maverick", "nemotron"}        -> openRouterPath
      [] rv \in {"llama", "workersai", "llava"} -> <<"response">>

\* what the handler has in hand before its inner try: nothing (the guard of
\* the if failed), a TypeError thrown outside the inner try, or the content,
\* which is a string or undefined
Skip           == [kind |-> "skip", isString |-> FALSE, text |-> <<>>]
OuterThrow     == [kind |-> "throw", isString |-> FALSE, text |-> <<>>]
Content(ts)    == [kind |-> "content", isString |-> TRUE, text |-> ts]
NoContent      == [kind |-> "content", isString |-> FALSE, text |-> <<>>]

\* the Gemini revisions: candidates[0].content guards, then
\* content.parts[0].text is read before the try
contentGemini(b) ==
    IF Len(b.path) < 3 THEN Skip
    ELSE IF Len(b.path) < 5 THEN OuterThrow
    ELSE IF Len(b.path) < 6 THEN NoContent
    ELSE Content(b.text)

\* the OpenRouter revisions: choices[0].message guards, message.content is read
contentOpenRouter(b) ==
    IF Len(b.path) < 3 THEN Skip
    ELSE IF Len(b.path) < 4 THEN NoContent
    ELSE Content(b.text)

\* the Workers AI revision with members: response && response.response
contentWorkersSplit(b) ==
    IF b.path = <<"response">> /\ b.text # <<>> THEN Content(b.text) ELSE Skip

\* JSON.stringify(aiResponse): an object text with no bracket in it
stringify(b) ==
    IF b.path = <<>> THEN <<Tok("{"), Tok("}")>>
    ELSE <<Tok("{"), Members(<< <<b.path[1], Str("")>> >>), Tok("}")>>

\* llama and llava: response || description || JSON.stringify(aiResponse),
\* inside the try
contentWorkers(b) ==
    IF b.path \in {<<"response">>, <<"description">>} /\ b.text # <<>>
    THEN Content(b.text)
    ELSE Content(stringify(b))

contentOf(rv, b) ==
    CASE rv \in {"gemini", "geminiSplit"} -> contentGemini(b)
      [] rv \in {"maverick", "nemotron"}  -> contentOpenRouter(b)
      [] rv = "workersai"                 -> contentWorkersSplit(b)
      [] rv \in {"llama", "llava"}        -> contentWorkers(b)

\* what the inner try has before filter: no array (nothing matched), an
\* exception, or the array
NoArray     == [kind |-> "none", items |-> <<>>]
ParseThrew  == [kind |-> "threw", items |-> <<>>]
Array(xs)   == [kind |-> "array", items |-> xs]

\* JSON.parse(jsonMatch[0]), whose value the pattern makes an array
parsedArray(p) == IF p.ok THEN Array(p.v.items) ELSE ParseThrew

parseMatch(m) == IF ~m.matched THEN NoArray ELSE parsedArray(JSONparse(m.text))

\* part_000 and part_002: fences stripped, then the greedy array pattern
candidatesFenced(c) ==
    IF ~c.isString THEN ParseThrew
    ELSE parseMatch(matchGreedy(cleanContent(c.text), "[", "]"))

\* llama and llava: the lazy array pattern on the raw text
candidatesLazy(c) == parseMatch(matchLazy(c.text, "[", "]"))

\* Array.isArray(parsed) ? parsed : (parsed.transactions || []), then .filter
txArray(p) ==
    IF ~p.ok THEN ParseThrew
    ELSE IF p.v.t = "array" THEN Array(p.v.items)
    ELSE IF ReadThrows(p.v) THEN ParseThrew
    ELSE IF ~Truthy(Get(p.v, "transactions")) THEN Array(<<>>)
    ELSE IF Get(p.v, "transactions").t = "array" THEN Array(Get(p.v, "transactions").items)
    ELSE ParseThrew

\* Workers AI with members: the greedy array pattern, else the whole text
\* jsonMatch ? jsonMatch[0] : text
matchOrText(m, text) == IF m.matched THEN m.text ELSE text

candidatesWorkersSplit(c) ==
    txArray(JSONparse(matchOrText(matchGreedy(c.text, "[", "]"), c.text)))

\* Gemini with members: JSON.parse of the text as it is
candidatesGeminiSplit(c) ==
    IF ~c.isString THEN ParseThrew ELSE txArray(JSONparse(c.text))

\* nemotron: the object pattern first, the array pattern when that fails to parse
\* obj.transactions when it is an array, else the object alone in an array
objectArray(v) ==
    IF Get(v, "transactions").t = "array" THEN Array(Get(v, "transactions").items)
    ELSE IF v.t # "array" THEN Array(<<v>>)
    ELSE Array(v.items)

objectOrArray(matched, o, clean) ==
    IF matched /\ o.ok THEN objectArray(o.v) ELSE parseMatch(matchGreedy(clean, "[", "]"))

objectFirst(objMatch, clean) == objectOrArray(objMatch.matched, JSONparse(objMatch.text), clean)

cleanNemotron(clean) == objectFirst(matchGreedy(clean, "{", "}"), clean)

candidatesNemotron(c) ==
    IF ~c.isString THEN ParseThrew ELSE cleanNemotron(cleanContent(c.text))

candidatesOf(rv, c) ==
    CASE rv \in {"gemini", "maverick"} -> candidatesFenced(c)
      [] rv \in {"llama", "llava"}     -> candidatesLazy(c)
      [] rv = "workersai"              -> candidatesWorkersSplit(c)
      [] rv = "geminiSplit"            -> candidatesGeminiSplit(c)
      [] rv = "nemotron"               -> candidatesNemotron(c)

-----------------------------------------------------------------------------
(* The handler *)

\* an outcome with the env entries and the body the handler read on the way
Did(o, entries, body) ==
    [kind |-> o.kind, resp |-> o.resp, error |-> o.error, call |-> o.call,
     envRead |-> entries, bodyRead |-> body]

\* a variant with no catch block: what is thrown leaves the handler
noCatch(o) == o

\* try { .. } catch (error) { return 500 }
tryCatch(o) ==
    IF o.kind = "throw"
    THEN [o EXCEPT !.kind = "return", !.resp = catchResponse(o.error)]
    ELSE o

\* a variant that reads the body and looks for the image before it tests
\* the credential
postStartBodyFirst(rv, e, req) ==
    LET cred == {credentialEntry(rv)}
    IN  IF ~req.body.json THEN Did(Throw("Unexpected token in JSON"), {}, TRUE)
        ELSE IF ReadThrows(req.body.v)
             THEN Did(Throw("Cannot destructure property 'image'"), {}, TRUE)
        ELSE IF ~Truthy(Get(req.body.v, "image"))
             THEN Did(Return(badRequest("No image provided")), {}, TRUE)
        ELSE IF ~e[credentialEntry(rv)] THEN Did(Return(configError(rv)), cred, TRUE)
        ELSE Did(imageStage(rv, Get(req.body.v, "image")), cred, TRUE)

\* a variant that does not test the credential
postStartNoCredential(rv, e, req) ==
    IF ~req.body.json THEN Did(Throw("Unexpected token in JSON"), {}, TRUE)
    ELSE IF ReadThrows(req.body.v)
         THEN Did(Throw("Cannot destructure property 'image'"), {}, TRUE)
    ELSE IF ~Truthy(Get(req.body.v, "image"))
         THEN Did(Return(badRequest("No image provided")), {}, TRUE)
    ELSE Did(imageStage(rv, Get(req.body.v, "image")), {}, TRUE)

\* the try block of a POST up to the upstream call: the credential, the
\* body, the image
postStart(rv, e, req) ==
    LET cred == {credentialEntry(rv)}
    IN  IF ~e[credentialEntry(rv)] THEN Did(Return(configError(rv)), cred, FALSE)
        ELSE IF ~req.body.json THEN Did(Throw("Unexpected token in JSON"), cred, TRUE)
        ELSE IF ReadThrows(req.body.v)
             THEN Did(Throw("Cannot destructure property 'image'"), cred, TRUE)
        ELSE IF ~Truthy(Get(req.body.v, "image"))
             THEN Did(Return(badRequest("No image provided")), cred, TRUE)
        ELSE Did(imageStage(rv, Get(req.body.v, "image")), cred, TRUE)

\* a variant with no 405 branch: every method but OPTIONS and GET is handled
\* as a POST
onRequestAnyMethod(rv, e, req) ==
    IF req.method = "OPTIONS" THEN Did(Return(optionsResponse), {}, FALSE)
    ELSE IF req.method = "GET" THEN Did(Return(probeResponse(rv, e)), {probeEntry(rv)}, FALSE)
    ELSE tryCatch(postStart(rv, e, req))

\* a variant that tests the credential before it looks at the method
onRequestCredentialFirst(rv, e, req) ==
    IF ~e[credentialEntry(rv)]
    THEN Did(Return(configError(rv)), {credentialEntry(rv)}, FALSE)
    ELSE IF req.method = "OPTIONS" THEN Did(Return(optionsResponse), {}, FALSE)
    ELSE IF req.method = "GET" THEN Did(Return(probeResponse(rv, e)), {probeEntry(rv)}, FALSE)
    ELSE IF req.method # "POST" THEN Did(Return(methodNotAllowed), {}, FALSE)
    ELSE tryCatch(postStart(rv, e, req))

\* onRequest up to its first return or to the upstream call
onRequestStart(rv, e, req) ==
    IF req.method = "OPTIONS" THEN Did(Return(optionsResponse), {}, FALSE)
    ELSE IF req.method = "GET" THEN Did(Return(probeResponse(rv, e)), {probeEntry(rv)}, FALSE)
    ELSE IF req.method # "POST" THEN Did(Return(methodNotAllowed), {}, FALSE)
    ELSE tryCatch(postStart(rv, e, req))

None == [some |-> FALSE, items |-> <<>>]
Some(xs) == [some |-> TRUE, items |-> xs]

\* the rest of the try block once the provider's JSON body is in hand
\* the end of the try block: transactions stays [] unless filter and map
\* ran to their end; the records are deduplicated and returned
respond(rv, c, a, fm) ==
    [out    |-> IF c.kind = "throw"
                THEN Throw("Cannot read properties of undefined")
                ELSE Return(successResponse(rv, IF fm.threw THEN <<>> ELSE dedup(rv, fm.records))),
     parsed |-> IF a.kind = "array" THEN Some(a.items) ELSE None,
     mapped |-> IF fm.threw THEN None ELSE Some(fm.records)]

\* filter and map run on the candidate array, when there is one
normalize(rv, c, a, day, members) ==
    respond(rv, c, a, IF a.kind = "array" THEN filterMap(rv, a.items, day, members)
                      ELSE [threw |-> TRUE, records |-> <<>>])

\* the inner try runs on the content, when there is content
extract(rv, c, day, members) ==
    normalize(rv, c, IF c.kind = "content" THEN candidatesOf(rv, c) ELSE NoArray, day, members)

processBody(rv, b, day, members) == extract(rv, contentOf(rv, b), day, members)

\* onRequest from the point where the upstream call settles
onUpstream(rv, up, day, members) ==
    CASE up.kind = "throws"  -> [out |-> Throw(up.errorText), parsed |-> None, mapped |-> None]
      [] up.kind = "status"  -> [out |-> Return(upstreamError(rv, up.code, up.errorText)),
                                 parsed |-> None, mapped |-> None]
      [] up.kind = "notJSON" -> [out |-> Throw("Unexpected token in JSON"),
                                 parsed |-> None, mapped |-> None]
      [] up.kind = "body"    -> processBody(rv, up, day, members)

-----------------------------------------------------------------------------
(* Inputs *)

Methods == {"OPTIONS", "GET", "POST", "PUT", "DELETE"}

\* the image of a body: absent, empty, raw base64, data URLs (well formed,
\* with no comma, with an empty payload, with a payload that is not
\* base64, with a media type that is not image/..), raw text that is not
\* base64, and a number
Images ==
    { Undefined, Str(""), Str("QUJD"), Str("data:image/png;base64,QUJD"),
      Str("data:image/png;base64"), Str("data:image/png;base64,"),
      Str("data:image/png;base64,@@@"), Str("data:text/plain,QUJD"),
      Str("@@@"), Num(5) }

MemberLists == { Arr(<<Str("Amy"), Str("Bob")>>), Arr(<<>>) }

InvalidBody == [json |-> FALSE, v |-> Undefined]
JsonBodyOf(v) == [json |-> TRUE, v |-> v]

ImageBody(i) == JsonBodyOf(IF i = Undefined THEN Obj(<<>>) ELSE Obj(<< <<"image", i>> >>))

\* the bodies a request may carry; only the two revisions that read
\* members are sent a member list
Bodies(rv) ==
    {InvalidBody, JsonBodyOf(Null)}
    \cup {ImageBody(i) : i \in Images}
    \cup (IF rv \in {"workersai", "geminiSplit"}
          THEN {JsonBodyOf(Obj(<< <<"image", Str("QUJD")>>, <<"members", m>> >>)) : m \in MemberLists}
          ELSE {})

NoRequest == [method |-> "", body |-> InvalidBody]

Days == {"2025-11-05"}

\* elements of the array the model is asked for, in the field names the
\* prompt of part_000 gives
Tx(date, description, category, amount) ==
    Obj(<< <<"date", date>>, <<"description", description>>, <<"category", category>>,
           <<"amount", amount>>, <<"type", Str("expense")>> >>)

StandardElements ==
    { Tx(Str("2025-11-02"), Str("KFC (Sebastopol)"), Str("Eating out"), Num(24350)),
      Tx(Str("2025-11-02"), Str("KFC (Sebastopol)"), Str("Eating out"), Num(24354)),
      Obj(<< <<"description", Str("X")>>, <<"amount", Str("24.3500")>> >>),
      Obj(<< <<"description", Str("X")>>, <<"amount", Str("12abc")>> >>),
      Obj(<< <<"description", Str("X")>>, <<"amount", Str("abc")>> >>),
      Obj(<< <<"description", Str("X")>>, <<"amount", Num(0)>> >>),
      Obj(<< <<"description", Str("X")>>, <<"amount", Num(0 - 5000)>> >>),
      Obj(<< <<"description", Str("X")>> >>),
      Obj(<< <<"description", Str("")>>, <<"amount", Num(5000)>> >>) }

\* and in the field names the llama and llava prompts give
WorkersElements ==
    { Obj(<< <<"date", Str("2025-11-02")>>, <<"name", Str("KFC")>>, <<"cat", Str("Food")>>,
             <<"amt", Num(24350)>>, <<"exp", Bool(TRUE)>> >>),
      Obj(<< <<"name", Str("Coles")>>, <<"amt", Str("12abc")>>, <<"exp", Bool(FALSE)>> >>),
      Obj(<< <<"name", Str("Coles")>>, <<"amt", Num(0)>> >>),
      Obj(<< <<"name", Str("")>>, <<"amt", Num(5000)>> >>),
      Tx(Str("2025-11-02"), Str("KFC (Sebastopol)"), Str("Eating out"), Num(24350)) }

Elements(rv) == IF rv \in {"llama", "llava"} THEN WorkersElements ELSE StandardElements

\* the JSON text of a value: the members of an object whose values are
\* strings, numbers, booleans or null are one token per run, a member whose
\* value is an array or an object is its key and the text of the value
RECURSIVE JsonText(_), JoinTexts(_), MemberTexts(_), ThenMembers(_), FlatRun(_)
FlatRun(ms) ==
    IF ms = <<>> \/ Head(ms)[2].t \in {"array", "object"} THEN 0 ELSE 1 + FlatRun(Tail(ms))
ThenMembers(ms) == IF ms = <<>> THEN <<>> ELSE <<Tok(",")>> \o MemberTexts(ms)
MemberTexts(ms) ==
    IF FlatRun(ms) = 0
    THEN <<Key(Head(ms)[1])>> \o JsonText(Head(ms)[2]) \o ThenMembers(Tail(ms))
    ELSE <<Members(SubSeq(ms, 1, FlatRun(ms)))>>
         \o ThenMembers(SubSeq(ms, FlatRun(ms) + 1, Len(ms)))
JsonText(v) ==
    CASE v.t = "array"  -> <<Tok("[")>> \o JoinTexts(v.items) \o <<Tok("]")>>
      [] v.t = "object" -> IF v.f = <<>> THEN <<Tok("{"), Tok("}")>>
                           ELSE <<Tok("{")>> \o MemberTexts(v.f) \o <<Tok("}")>>
      [] OTHER          -> <<Literal(v)>>
JoinTexts(vs) ==
    IF vs = <<>> THEN <<>>
    ELSE IF Len(vs) = 1 THEN JsonText(vs[1])
    ELSE JsonText(vs[1]) \o <<Tok(",")>> \o JoinTexts(Tail(vs))

\* the arrays of at most MaxElems elements
Arrays(rv) == UNION {[1..n -> Elements(rv)] : n \in 0..MaxElems}

\* the ways a model wraps a payload: a json fence, prose around it, an
\* object with a transactions field
Fenced(ts)  == <<Tok("fence_json"), Tok("ws")>> \o ts \o <<Tok("ws"), Tok("fence")>>
InProse(ts) == <<Tok("prose"), Tok("ws")>> \o ts \o <<Tok("ws"), Tok("prose")>>
Wrapped(ts) == <<Tok("{"), Key("transactions")>> \o ts \o <<Tok("}")>>

\* replies that hold no usable JSON: nothing, prose, brackets around prose,
\* an array cut short, braces around prose, the literal null
Unusable(rv) ==
    { <<>>, <<Tok("prose")>>, <<Tok("[") , Tok("prose"), Tok("]")>>,
      <<Tok("{"), Tok("prose"), Tok("}")>>, <<Literal(Null)>> }
    \cup { SubSeq(JsonText(Arr(<<e>>)), 1, 3) : e \in Elements(rv) }

\* what the model may reply: every array bare; the arrays of at most one
\* element wrapped each way; a single object; the unusable replies
Texts(rv) ==
    LET bare  == {JsonText(Arr(a)) : a \in Arrays(rv)}
        short == {JsonText(Arr(a)) : a \in {x \in Arrays(rv) : Len(x) <= 1}}
    IN  bare
        \cup {Fenced(t) : t \in short} \cup {InProse(t) : t \in short}
        \cup {Wrapped(t) : t \in short}
        \cup {JsonText(e) : e \in Elements(rv)}
        \cup Unusable(rv)

Prefixes(path) == {SubSeq(path, 1, n) : n \in 0..(Len(path) - 1)}

\* how the upstream call of a revision may settle
Outcomes(rv) ==
    {Threw("upstream call failed")}
    \cup (IF rv \in FetchRevisions
          THEN {NotOk("429", "rate limited"), NotOk("500", "internal error"), NotJSON}
          ELSE {Body(<<"description">>, t) : t \in {JsonText(Arr(<<e>>)) : e \in Elements(rv)}})
    \cup {Body(p, <<>>) : p \in Prefixes(textPath(rv))}
    \cup {Body(textPath(rv), t) : t \in Texts(rv)}

-----------------------------------------------------------------------------
(* The state machine *)

Init ==
    /\ rev \in Revisions
    /\ env \in [EnvEntries -> BOOLEAN]
    /\ today \in Days
    /\ pc = "idle"
    /\ request = NoRequest
    /\ envRead = {}
    /\ bodyRead = FALSE
    /\ upstreamCalls = 0
    /\ upstreamReq = NoCall
    /\ upstream = NoUpstream
    /\ parsed = None
    /\ mapped = None
    /\ response = NoResponse
    /\ escaped = FALSE

\* the platform invokes onRequest(context); the handler runs to its first
\* return or suspends at the upstream call
OnRequest ==
    /\ pc = "idle"
    /\ \E m \in Methods, b \in Bodies(rev) :
          \E o \in {onRequestStart(rev, env, [method |-> m, body |-> b])} :
              /\ request' = [method |-> m, body |-> b]
              /\ envRead' = o.envRead
              /\ bodyRead' = o.bodyRead
              /\ escaped' = (o.kind = "throw")
              /\ pc' = IF o.kind = "call" THEN "awaiting" ELSE "responded"
              /\ upstreamCalls' = IF o.kind = "call" THEN 1 ELSE 0
              /\ upstreamReq' = o.call
              /\ response' = o.resp
    /\ UNCHANGED <<rev, env, today, upstream, parsed, mapped>>

\* the awaited upstream call settles and the handler runs to its return
UpstreamSettles ==
    /\ pc = "awaiting"
    /\ \E up \in Outcomes(rev) :
          \E r \in {onUpstream(rev, up, today, Get(request.body.v, "members"))} :
             /\ upstream' = up
             /\ parsed' = r.parsed
             /\ mapped' = r.mapped
             /\ escaped' = (tryCatch(r.out).kind = "throw")
             /\ response' = tryCatch(r.out).resp
    /\ pc' = "responded"
    /\ UNCHANGED <<rev, env, today, request, envRead, bodyRead, upstreamCalls, upstreamReq>>

\* the invocation is over; nothing of it is kept for the next one
NextRequest ==
    /\ pc = "responded"
    /\ pc' = "idle"
    /\ request' = NoRequest
    /\ envRead' = {}
    /\ bodyRead' = FALSE
    /\ upstreamCalls' = 0
    /\ upstreamReq' = NoCall
    /\ upstream' = NoUpstream
    /\ parsed' = None
    /\ mapped' = None
    /\ response' = NoResponse
    /\ escaped' = FALSE
    /\ UNCHANGED <<rev, env, today>>

Next == OnRequest \/ UpstreamSettles \/ NextRequest

Spec == Init /\ [][Next]_vars

-----------------------------------------------------------------------------
(* The normalizer on its own: a configured handler, a well-formed request,
   and a reply that is an array of candidates *)

\* candidates in the field names of the part_000 prompt: a receipt line, the
\* same line with an amount that rounds to the same cents and with one a cent
\* higher; a line whose date is as it is printed on the receipt and whose
\* amount is a string; lines with no date; an amount of a cent and a half;
\* an amount below half a cent; a line with the split fields; a custom split;
\* dates written with slashes; an element that is null and one whose
\* description is a number
RecordElements ==
    { Obj(<< <<"date", Str("11/2")>>, <<"description", Str("Qantas")>>,
             <<"category", Str("Travel")>>, <<"amount", Num(5000)>> >>),
      Obj(<< <<"date", Str("2025/11/2")>>, <<"description", Str("X")>>,
             <<"category", Str("Takeaway")>>, <<"amount", Num(5000)>> >>),
      Null,
      Obj(<< <<"description", Num(5)>>, <<"amount", Num(5000)>> >>),
      Tx(Str("2025-11-02"), Str("KFC (Sebastopol)"), Str("Eating out"), Num(24350)),
      Tx(Str("2025-11-02"), Str("KFC (Sebastopol)"), Str("Eating out"), Num(24354)),
      Tx(Str("2025-11-02"), Str("KFC (Sebastopol)"), Str("Eating out"), Num(24360)),
      Obj(<< <<"date", Str("Sun 02 Nov 2025")>>, <<"description", Str("QUT enrolment")>>,
             <<"category", Str("Fees")>>, <<"amount", Str("24.3500")>>,
             <<"type", Str("income")>> >>),
      Obj(<< <<"description", Str("KFC")>>, <<"category", Str("Groceries")>>,
             <<"amount", Num(1005)>> >>),
      Obj(<< <<"description", Str("X")>>, <<"category", Str("Gifts")>>,
             <<"amount", Num(5000)>> >>),
      Obj(<< <<"description", Str("X")>>, <<"amount", Num(4)>> >>),
      Obj(<< <<"description", Str("Uber")>>, <<"category", Str("Transport")>>,
             <<"amount", Num(5000)>>, <<"type", Str("Income")>>, <<"payer", Str("Bob")>>,
             <<"involved", Arr(<<Str("Bob")>>)>>, <<"splitType", Str("exact")>> >>),
      Obj(<< <<"date", Str("2025-11-02")>>, <<"description", Str("KFC (Sebastopol)")>>,
             <<"category", Str("Eating out")>>, <<"amount", Num(24350)>>,
             <<"splitType", Str("custom")>>,
             <<"customItems", Arr(<<Obj(<< <<"name", Str("Amy")>>, <<"amount", Num(24350)>> >>)>>)>> >>) }

\* and in the field names of the llama and llava prompts
WorkersRecordElements ==
    { Obj(<< <<"date", Str("11/2")>>, <<"name", Str("Qantas")>>, <<"cat", Str("Travel")>>,
             <<"amt", Num(5000)>> >>),
      Obj(<< <<"date", Str("2025/11/2")>>, <<"name", Str("X")>>, <<"cat", Str("Takeaway")>>,
             <<"amt", Num(5000)>>, <<"involved", Arr(<<Str("Bob")>>)>> >>),
      Null,
      Obj(<< <<"date", Str("2025-11-02")>>, <<"name", Str("KFC (Sebastopol)")>>,
             <<"cat", Str("Eating out")>>, <<"amt", Num(24350)>>, <<"exp", Bool(TRUE)>> >>),
      Obj(<< <<"date", Str("2025-11-02")>>, <<"name", Str("KFC (Sebastopol)")>>,
             <<"cat", Str("Eating out")>>, <<"amt", Num(24360)>>, <<"exp", Bool(TRUE)>> >>),
      Obj(<< <<"date", Str("Sun 02 Nov 2025")>>, <<"name", Str("QUT enrolment")>>,
             <<"cat", Str("Fees")>>, <<"amt", Str("24.3500")>>, <<"exp", Bool(FALSE)>> >>),
      Obj(<< <<"name", Str("KFC")>>, <<"cat", Str("Groceries")>>, <<"amt", Num(1005)>>,
             <<"type", Str("income")>> >>),
      Obj(<< <<"name", Str("X")>>, <<"cat", Str("Gifts")>>, <<"amt", Num(5000)>> >>),
      Obj(<< <<"name", Str("X")>>, <<"amt", Num(4)>> >>),
      Obj(<< <<"name", Str("Uber")>>, <<"cat", Str("Transport")>>, <<"amt", Num(5000)>>,
             <<"exp", Bool(FALSE)>> >>) }

CandidatesOfRevision(rv) ==
    IF rv \in {"llama", "llava"} THEN WorkersRecordElements ELSE RecordElements

\* the arrays of at most MaxElems candidates
CandidateArrays(rv) == UNION {[1..n -> CandidatesOfRevision(rv)] : n \in 0..MaxElems}

\* a caller may send a member list to any revision
ImageBodies ==
    {ImageBody(Str("QUJD"))}
    \cup {JsonBodyOf(Obj(<< <<"image", Str("QUJD")>>, <<"members", m>> >>)) : m \in MemberLists}

InitConfigured == Init /\ \A e \in EnvEntries : env[e]

\* a POST with an image
ImageRequest ==
    /\ pc = "idle"
    /\ \E b \in ImageBodies :
          \E o \in {onRequestStart(rev, env, [method |-> "POST", body |-> b])} :
              /\ request' = [method |-> "POST", body |-> b]
              /\ envRead' = o.envRead
              /\ bodyRead' = o.bodyRead
              /\ escaped' = (o.kind = "throw")
              /\ pc' = IF o.kind = "call" THEN "awaiting" ELSE "responded"
              /\ upstreamCalls' = IF o.kind = "call" THEN 1 ELSE 0
              /\ upstreamReq' = o.call
              /\ response' = o.resp
    /\ UNCHANGED <<rev, env, today, upstream, parsed, mapped>>

\* the provider answers with an array of candidates
ModelReplies ==
    /\ pc = "awaiting"
    /\ \E a \in CandidateArrays(rev) :
          \E up \in {Body(textPath(rev), JsonText(Arr(a)))} :
             \E r \in {onUpstream(rev, up, today, Get(request.body.v, "members"))} :
                /\ upstream' = up
                /\ parsed' = r.parsed
                /\ mapped' = r.mapped
                /\ escaped' = (tryCatch(r.out).kind = "throw")
                /\ response' = tryCatch(r.out).resp
    /\ pc' = "responded"
    /\ UNCHANGED <<rev, env, today, request, envRead, bodyRead, upstreamCalls, upstreamReq>>

NextRecords == ImageRequest \/ ModelReplies \/ NextRequest

SpecRecords == InitConfigured /\ [][NextRecords]_vars

-----------------------------------------------------------------------------
(* The HTTP contract: what each kind of request is answered with *)

Responded  == pc = "responded"
Post       == pc # "idle" /\ request.method = "POST"
Configured == env[credentialEntry(rev)]

\* the body {error, success:false, transactions:[]}
ErrorShape(b) ==
    /\ ~b.isNull
    /\ b.keys = {"error", "success", "transactions"}
    /\ b.error # ""
    /\ b.success = FALSE
    /\ b.transactions = <<>>

\* the image of a body that is a JSON object
imageOf == Get(request.body.v, "image")

\* the base64 payload of an image string: what follows the comma of a data
\* URL, the whole string otherwise
payloadOf(s) ==
    IF ~startsWith(s, "data:") THEN s
    ELSE IF indexOf(s, ",") = 0 THEN ""
    ELSE Slice(s, indexOf(s, ",") + 1, Len(s))

\* an image that is absent or empty, or a string that is neither raw base64
\* nor a data URL with a base64 payload
unparsable(v) ==
    \/ ~Truthy(v)
    \/ /\ v.t = "string"
       /\ \/ startsWith(v.s, "data:") /\ indexOf(v.s, ",") = 0
          \/ payloadOf(v.s) = ""
          \/ atobThrows(payloadOf(v.s))

\* C1, as the specification states it: a POST (credential configured, body a
\* JSON object) whose image is absent, empty or unparsable is answered with
\* status 400 and an error, and no upstream call is made for it.  The
\* handlers do not hold to this.
C1_UnparsableImageRejected ==
    (Post /\ Configured /\ request.body.json /\ ~ReadThrows(request.body.v)
          /\ unparsable(imageOf))
    => /\ Responded
       /\ response.status = 400
       /\ "error" \in response.body.keys
       /\ upstreamCalls = 0

\* C2: a POST handled while the credential or binding is absent is answered
\* with status 500 and {error, success:false, transactions:[]}, whatever the
\* body holds, and no upstream call is made.
C2_MissingCredential ==
    (Post /\ ~Configured)
    => /\ Responded
       /\ response.status = 500
       /\ ErrorShape(response.body)
       /\ upstreamCalls = 0
       /\ upstream = NoUpstream

C2_Witness ==
    /\ Post /\ ~Configured /\ ~request.body.json
    /\ response.status = 500

\* the upstream call failed: the provider answered with a status that is not
\* 2xx, or the call threw
UpstreamFailed == Responded /\ upstream.kind \in {"status", "throws"}

\* C3, amended: when the provider answers with a non-2xx status the POST is
\* answered with status 500 and error, details, success:false and
\* transactions:[]; when the call throws it is answered with status 500 and
\* error, success:false and transactions:[], with no details.  No status 503
\* is ever returned.
C3_UpstreamFailure ==
    UpstreamFailed
    => /\ response.status = 500
       /\ {"error", "success", "transactions"} \subseteq response.body.keys
       /\ response.body.error # ""
       /\ response.body.success = FALSE
       /\ response.body.transactions = <<>>
       /\ ("details" \in response.body.keys) <=> (upstream.kind = "status")
       /\ upstream.kind = "status" => response.body.details = upstream.errorText

C3_Witness ==
    /\ UpstreamFailed /\ upstream.kind = "throws"
    /\ response.status = 500
    /\ "details" \notin response.body.keys

\* C3 as the specification states it: every upstream failure is answered
\* with status 500 or 503 and all of error, details, success:false and
\* transactions:[].
C3_AsStated ==
    UpstreamFailed
    => /\ response.status \in {500, 503}
       /\ {"error", "details", "success", "transactions"} \subseteq response.body.keys
       /\ response.body.success = FALSE
       /\ response.body.transactions = <<>>

\* C4: every status-200 response to a POST has success true exactly when
\* transactions is not empty, count equal to the length of transactions, and
\* a source that names the provider and model, whatever the model's output.
C4_SuccessEnvelope ==
    (Post /\ Responded /\ response.status = 200)
    => /\ ~response.body.isNull
       /\ response.body.keys = {"success", "transactions", "count", "source"}
       /\ response.body.success <=> (Len(response.body.transactions) >= 1)
       /\ response.body.count = Len(response.body.transactions)
       /\ response.body.source # ""
       /\ response.body.source = sourceName(rev)

C4_Witness ==
    /\ Post /\ Responded /\ response.status = 200
    /\ mapped.some /\ Len(mapped.items) = 2
    /\ response.body.count = 1
    /\ response.body.success

\* the reply lacks the text: its chain of properties stops short of it
lacksText == upstream.path \in Prefixes(textPath(rev))

\* the text holds no bracket-delimited JSON, array or object
noBracketedJSON ==
    /\ upstream.path = textPath(rev)
    /\ ~matchGreedy(upstream.text, "[", "]").matched
    /\ ~matchGreedy(upstream.text, "{", "}").matched

\* the bracketed substring of the text fails JSON parsing
bracketedFailsParse ==
    /\ upstream.path = textPath(rev)
    /\ matchGreedy(upstream.text, "[", "]").matched
    /\ ~JSONparse(matchGreedy(upstream.text, "[", "]").text).ok

\* C5, as the specification states it: when the provider answers 2xx with a
\* JSON body whose output is unusable, the POST is answered with status 200,
\* success:false, transactions:[] and count 0, never with an error status.
\* The Gemini handlers do not hold to this.
C5_UnusableOutputIsEmpty ==
    (Responded /\ upstream.kind = "body"
               /\ (lacksText \/ noBracketedJSON \/ bracketedFailsParse))
    => /\ response.status = 200
       /\ response.body.success = FALSE
       /\ response.body.transactions = <<>>
       /\ response.body.count = 0

\* atob throws on the payload the revision hands it
decodeThrows ==
    /\ bodyRead /\ request.body.json /\ imageOf.t = "string"
    /\ \/ /\ rev \in {"llama", "llava"}
          /\ payloadOf(imageOf.s) # ""
          /\ atobThrows(payloadOf(imageOf.s))
       \/ /\ rev = "workersai"
          /\ atobThrows(splitBase64(imageOf.s))

\* an exception is raised outside the parse of the model's text
raisedOutsideParse ==
    \/ bodyRead /\ ~request.body.json
    \/ decodeThrows
    \/ upstream.kind \in {"throws", "notJSON"}

\* C6: an exception raised while a POST is handled, outside the parse of the
\* model's text, ends in a status-500 response with {error: message,
\* success:false, transactions:[]}; no exception leaves the handler.
C6_ExceptionsCaught ==
    /\ ~escaped
    /\ (Post /\ Responded /\ raisedOutsideParse)
       => /\ response.status = 500
          /\ ErrorShape(response.body)
          /\ upstream.kind = "throws" => response.body.error = upstream.errorText

C6_Witness ==
    /\ Post /\ Responded /\ upstream.kind = "notJSON"
    /\ response.status = 500
    /\ ~escaped

\* C7: a request whose method is none of OPTIONS, GET, POST is answered with
\* status 405 and {error: "Method not allowed"}, and neither the body nor the
\* credential is read nor the provider called.
C7_MethodNotAllowed ==
    (pc # "idle" /\ request.method \notin {"OPTIONS", "GET", "POST"})
    => /\ Responded
       /\ response.status = 405
       /\ ~response.body.isNull
       /\ response.body.keys = {"error"}
       /\ response.body.error = "Method not allowed"
       /\ ~bodyRead
       /\ envRead = {}
       /\ upstreamCalls = 0

C7_Witness ==
    /\ Responded /\ request.method = "DELETE" /\ Configured
    /\ response.status = 405

\* C8: a GET is answered with status 200 and {status: "ok", message,
\* hasApiKey or hasAI}, whether or not the entry is set, and never calls the
\* provider.
C8_Probe ==
    (pc # "idle" /\ request.method = "GET")
    => /\ Responded
       /\ response.status = 200
       /\ ~response.body.isNull
       /\ \E k \in {"hasApiKey", "hasAI"} : response.body.keys = {"status", "message", k}
       /\ response.body.status = "ok"
       /\ response.body.message # ""
       /\ response.body.flag \in BOOLEAN
       /\ upstreamCalls = 0
       /\ upstream = NoUpstream

C8_Witness ==
    /\ Responded /\ request.method = "GET"
    /\ ~env[probeEntry(rev)] /\ ~Configured
    /\ response.status = 200

\* C9: an OPTIONS request is answered with a null body and the permissive
\* CORS headers, and neither the credential nor the body is read nor the
\* provider called.
C9_Preflight ==
    (pc # "idle" /\ request.method = "OPTIONS")
    => /\ Responded
       /\ response.body.isNull
       /\ <<"Access-Control-Allow-Origin", "*">> \in response.headers
       /\ <<"Access-Control-Allow-Methods", "GET, POST, OPTIONS">> \in response.headers
       /\ <<"Access-Control-Allow-Headers", "Content-Type">> \in response.headers
       /\ envRead = {}
       /\ ~bodyRead
       /\ upstreamCalls = 0

C9_Witness ==
    /\ Responded /\ request.method = "OPTIONS" /\ ~Configured
    /\ response.body.isNull

-----------------------------------------------------------------------------
(* The normalizer: which elements become records *)

\* all of s is a decimal numeral: an optional sign, digits, at most one point
numeral(s) ==
    LET body == IF Ch(s, 1) \in {"-", "+"} THEN Tail(s) ELSE s
    IN  /\ \E i \in 1..Len(body) : IsDigit(Ch(body, i))
        /\ \A i \in 1..Len(body) : IsDigit(Ch(body, i)) \/ Ch(body, i) = "."
        /\ Cardinality({i \in 1..Len(body) : Ch(body, i) = "."}) <= 1

\* the amount is a number greater than 0, or a string that is one
numericPositive(v) ==
    \/ v.t = "number" /\ v.n > 0
    \/ v.t = "string" /\ numeral(v.s) /\ parseFloatStr(v.s).n > 0

\* the element has a truthy description and a numeric amount greater than 0
qualifies(rv, e) ==
    /\ ~ReadThrows(e)
    /\ Truthy(Get(e, descriptionKey(rv)))
    /\ numericPositive(Get(e, amountKey(rv)))

\* C10, as the specification states it: the elements of the parsed sequence
\* that produce a record, each exactly one, are those with a truthy
\* description and a numeric amount greater than 0; an amount that is only
\* partly numeric produces none.  The filter of the handlers does not hold
\* to this.
C10_RecordIffQualifies ==
    (Responded /\ parsed.some /\ mapped.some)
    => Len(mapped.items)
         = Cardinality({i \in 1..Len(parsed.items) : qualifies(rev, parsed.items[i])})

-----------------------------------------------------------------------------
(* The normalizer: the fields of a record *)

\* a POST was answered with status 200
Returned == Post /\ Responded /\ response.status = 200

\* the records of the response
transactions == response.body.transactions

\* the candidates the records were made from, in the order of the records
\* before deduplication (mapped.items)
candidates == SelectSeq(parsed.items, LAMBDA tx : keeps(rev, tx))

\* C11, as the specification states it: every returned record has an amount
\* greater than 0 after rounding to two decimals; a candidate whose positive
\* amount is below half a cent never yields a record of amount 0.  The
\* handlers test the amount before rounding it, so such a candidate does.
C11_AmountsPositive ==
    Returned => \A i \in 1..Len(transactions) : transactions[i].amount > 0

\* a date of the form YYYY-MM-DD
isoDate(v) ==
    /\ v.t = "string"
    /\ Len(v.s) = 10
    /\ \A i \in {1, 2, 3, 4, 6, 7, 9, 10} : IsDigit(Ch(v.s, i))
    /\ \A i \in {5, 8} : Ch(v.s, i) = "-"

\* C12, as the specification states it: the date of every returned record is
\* of the form YYYY-MM-DD; a candidate's date that is absent or of another
\* form is replaced by the current date.  The handlers replace only a date
\* that is absent or falsy.
C12_DatesNormalized ==
    (Returned /\ mapped.some)
    => /\ \A i \in 1..Len(transactions) : isoDate(transactions[i].date)
       /\ \A i \in 1..Len(mapped.items) :
             ~isoDate(Get(candidates[i], "date")) => mapped.items[i].date = Str(today)

-----------------------------------------------------------------------------
(* Deduplication *)

\* the values of two amounts of whole cents differ by less than 0.01: they
\* are the same amount, or a cent apart with doubles that are closer
closerThanCent(a, b) ==
    \/ a = b
    \/ /\ abs(a - b) = 10 /\ a > 0 /\ b > 0
       /\ gapError((IF a < b THEN a ELSE b) \div 10) < 0

\* two records are duplicates: the same date string, the same description
\* string, amounts less than 0.01 apart
duplicates(t, u) ==
    /\ t.date.t = "string" /\ t.date = u.date
    /\ t.description.t = "string" /\ t.description = u.description
    /\ closerThanCent(t.amount, u.amount)

\* the positions of the records that have no earlier duplicate
firstOccurrences(records) ==
    {i \in 1..Len(records) : \A j \in 1..(i - 1) : ~duplicates(records[j], records[i])}

\* the n-th smallest member of a set of positions
nth(K, n) == CHOOSE i \in K : Cardinality({j \in K : j <= i}) = n

\* the nemotron revision exempts custom-split records (C14)
hasCustom == rev = "nemotron" /\ \E i \in 1..Len(mapped.items) : mapped.items[i].splitType = Str("custom")

customSplit(r) == r.splitType = Str("custom") /\ "customItems" \in r.keys

\* C14: in the revision that supports custom splits, every custom-split
\* record the normalizer produced is in the response, in order, also when
\* several of them share date, description and amount.
C14_CustomSplitsKept ==
    (Returned /\ mapped.some /\ rev = "nemotron")
    => SelectSeq(transactions, customSplit) = SelectSeq(mapped.items, customSplit)

\* two custom-split records of one date, description and amount, both returned
C14_Witness ==
    /\ Returned /\ mapped.some /\ rev = "nemotron"
    /\ Len(mapped.items) = 2
    /\ customSplit(mapped.items[1]) /\ customSplit(mapped.items[2])
    /\ duplicates(mapped.items[1], mapped.items[2])
    /\ Len(transactions) = 2

-----------------------------------------------------------------------------
(* Categories *)

\* a candidate's text field, in lower case ("" when it has none)
textOf(tx, key) == IF Get(tx, key).t = "string" THEN toLowerCase(Get(tx, key).s) ELSE ""

\* the categories of the rules of a tier whose substring the text contains
matches(text, rules) ==
    {rules[i][2] : i \in {j \in 1..Len(rules) : includes(text, rules[j][1])}}

\* the tier that decides: the overrides on the description, else the keywords
\* on the category text, else the merchants on the description
deciding(rv, tx) ==
    IF matches(textOf(tx, descriptionKey(rv)), overrideRules) # {}
    THEN matches(textOf(tx, descriptionKey(rv)), overrideRules)
    ELSE IF matches(textOf(tx, categoryKey(rv)), keywordRules(rv)) # {}
    THEN matches(textOf(tx, categoryKey(rv)), keywordRules(rv))
    ELSE matches(textOf(tx, descriptionKey(rv)), fallbackRules(rv))

\* the records that carry a category, with the candidate each was made from
categorized == {i \in 1..Len(mapped.items) : "category" \in mapped.items[i].keys}

\* C15: the category of a record is decided by the first tier that matches,
\* description overrides before category keywords before merchant fallbacks,
\* by case-insensitive substring: "QUT enrolment" with category "Fees" is
\* education, "KFC" with category "Groceries" is groceries.
C15_CategoryPrecedence ==
    (Returned /\ mapped.some)
    => \A i \in categorized :
          /\ deciding(rev, candidates[i]) # {}
                => mapped.items[i].category \in deciding(rev, candidates[i])
          /\ (textOf(candidates[i], descriptionKey(rev)) = "qut enrolment"
                /\ textOf(candidates[i], categoryKey(rev)) = "fees")
                => mapped.items[i].category = "education"
          /\ (textOf(candidates[i], descriptionKey(rev)) = "kfc"
                /\ textOf(candidates[i], categoryKey(rev)) = "groceries")
                => mapped.items[i].category = "groceries"

\* both examples in one reply
C15_Witness ==
    /\ Returned /\ mapped.some /\ Len(mapped.items) = 2
    /\ Get(candidates[1], descriptionKey(rev)) = Str("QUT enrolment")
    /\ Get(candidates[1], categoryKey(rev)) = Str("Fees")
    /\ mapped.items[1].category = "education"
    /\ Get(candidates[2], descriptionKey(rev)) = Str("KFC")
    /\ Get(candidates[2], categoryKey(rev)) = Str("Groceries")
    /\ mapped.items[2].category = "groceries"

\* C16, as the specification states it: when no override, keyword or merchant
\* matches, the category of the record is the candidate's category text as
\* given, and "other" only when the candidate has none.  mapCategory ends in
\* return 'other' in every revision.
C16_UnmatchedKeepsCategory ==
    (Returned /\ mapped.some)
    => \A i \in categorized :
          deciding(rev, candidates[i]) = {}
          => mapped.items[i].category
               = IF Truthy(Get(candidates[i], categoryKey(rev)))
                 THEN Get(candidates[i], categoryKey(rev)).s
                 ELSE "other"

-----------------------------------------------------------------------------
(* Transaction type and split fields *)

\* the revisions whose prompt asks for the short field names, exp among them
shortFields == rev \in {"llama", "llava"}

\* C17, amended: in the revisions that read the candidate's type, txType is
\* "income" exactly when type is the string "income" and "expense" otherwise;
\* in the two revisions with the short field names it is "income" exactly
\* when exp is the boolean false.
C17_TxType ==
    (Returned /\ mapped.some)
    => \A i \in 1..Len(mapped.items) :
          mapped.items[i].txType
            = IF shortFields
              THEN (IF Get(candidates[i], "exp") = Bool(FALSE) THEN "income" ELSE "expense")
              ELSE (IF Get(candidates[i], "type") = Str("income") THEN "income" ELSE "expense")

\* a candidate of type "income" and one of type "Income", in one reply
C17_Witness ==
    /\ Returned /\ mapped.some /\ ~shortFields /\ Len(mapped.items) = 2
    /\ Get(candidates[1], "type") = Str("income") /\ mapped.items[1].txType = "income"
    /\ Get(candidates[2], "type") = Str("Income") /\ mapped.items[2].txType = "expense"

\* C17 as the specification states it, for every revision
C17_AsStated ==
    (Returned /\ mapped.some)
    => \A i \in 1..Len(mapped.items) :
          mapped.items[i].txType
            = IF Get(candidates[i], "type") = Str("income") THEN "income" ELSE "expense"

\* the member list of the request, and whether it is a non-empty list
members == Get(request.body.v, "members")
membersGiven == members.t = "array" /\ Len(members.items) > 0

\* the revisions that read members from the request
readsMembers == rev \in {"workersai", "geminiSplit"}

\* the candidate's field when it has one (truthy), else the default
orDefault(tx, key, default) == IF Truthy(Get(tx, key)) THEN Get(tx, key) ELSE default

\* record r carries the split fields of candidate tx, with the defaults
splitFieldsOf(r, tx) ==
    /\ {"payer", "involved", "splitType"} \subseteq r.keys
    /\ r.payer = orDefault(tx, "payer", members.items[1])
    /\ r.involved = orDefault(tx, "involved", members)
    /\ r.splitType = orDefault(tx, "splitType", Str("equal"))

\* C18, amended: in the two revisions that read the member list, when the
\* caller supplied a non-empty list every returned record has the payer of
\* its candidate or else the first member, the involved list of its
\* candidate or else the whole list, and the splitType of its candidate or
\* else "equal".
C18_SplitDefaults ==
    (Returned /\ mapped.some /\ readsMembers /\ membersGiven)
    => /\ \A i \in 1..Len(mapped.items) : splitFieldsOf(mapped.items[i], candidates[i])
       /\ \A n \in 1..Len(transactions) :
             \E i \in 1..Len(mapped.items) : transactions[n] = mapped.items[i]

\* a candidate with its own split fields and one with none, both returned
C18_Witness ==
    /\ Returned /\ mapped.some /\ readsMembers /\ membersGiven
    /\ Len(transactions) = 2
    /\ transactions[1].payer = Str("Bob") /\ transactions[1].splitType = Str("exact")
    /\ transactions[2].payer = members.items[1] /\ transactions[2].involved = members
    /\ transactions[2].splitType = Str("equal")

\* C18 as the specification states it, for every revision
C18_AsStated ==
    (Returned /\ mapped.some /\ membersGiven)
    => \A i \in 1..Len(mapped.items) : splitFieldsOf(mapped.items[i], candidates[i])

-----------------------------------------------------------------------------
(* Idempotence and rounding *)

\* the fields of record r that normalization would give a candidate made of r
categoryAgain(r) == mapCategory(rev, r.description, Str(r.category))
dateAgain(r) == OrElse(r.date, Str(today))
amountAgain(r) == roundCents(parseFloat(Num(r.amount)).n)

\* C19, as the specification states it: the category, date and amount of
\* every returned record are fixed points of normalization; a category
\* resolved to "vehicle" or "food" stays.  mapCategory has no rule that
\* yields "vehicle" from the text "vehicle".
C19_FixedPoints ==
    Returned
    => \A n \in 1..Len(transactions) :
          /\ "category" \in transactions[n].keys
                => categoryAgain(transactions[n]) = transactions[n].category
          /\ dateAgain(transactions[n]) = transactions[n].date
          /\ amountAgain(transactions[n]) = transactions[n].amount

\* the decimal a candidate gives as its amount, in thousandths
given(tx) == parseFloat(Get(tx, amountKey(rev))).n

\* C20, as the specification states it: the amount of a record is the
\* candidate's amount, a number or a numeric string, rounded to the nearest
\* cent with half a cent rounding up; the string "24.3500" becomes 24.35.
\* In double arithmetic amount * 100 can fall below the half.
C20_RoundedHalfUp ==
    (Returned /\ mapped.some)
    => \A i \in 1..Len(mapped.items) :
          /\ mapped.items[i].amount = ((given(candidates[i]) + 5) \div 10) * 10
          /\ Get(candidates[i], amountKey(rev)) = Str("24.3500")
                => mapped.items[i].amount = 24350

-----------------------------------------------------------------------------
(* Dates written with slashes *)

\* the fields of a date between its slashes
fieldsOf(s) ==
    IF indexOf(s, "/") = 0 THEN <<s>>
    ELSE IF indexFrom(s, "/", indexOf(s, "/") + 1) = 0
    THEN <<Slice(s, 1, indexOf(s, "/") - 1), Slice(s, indexOf(s, "/") + 1, Len(s))>>
    ELSE <<Slice(s, 1, indexOf(s, "/") - 1),
           Slice(s, indexOf(s, "/") + 1, indexFrom(s, "/", indexOf(s, "/") + 1) - 1),
           Slice(s, indexFrom(s, "/", indexOf(s, "/") + 1) + 1, Len(s))>>

\* a field of one or two digits, of four digits
digits(x, lens) == Len(x) \in lens /\ \A i \in 1..Len(x) : IsDigit(Ch(x, i))
monthDay(f) == Len(f) = 2 /\ digits(f[1], {1, 2}) /\ digits(f[2], {1, 2})
yearMonthDay(f) ==
    Len(f) = 3 /\ digits(f[1], {4}) /\ digits(f[2], {1, 2}) /\ digits(f[3], {1, 2})

pad(x) == IF Len(x) = 1 THEN "0" \o x ELSE x

\* C21, as the specification states it: a candidate date M/D or MM/DD comes
\* out as the current year, month and day, zero-padded and joined by dashes;
\* a candidate date YYYY/M/D comes out as YYYY-MM-DD.  The handlers copy the
\* date as it is.
C21_SlashDates ==
    (Returned /\ mapped.some)
    => \A i \in 1..Len(mapped.items) :
          Get(candidates[i], "date").t = "string"
          => /\ monthDay(fieldsOf(Get(candidates[i], "date").s))
                  => mapped.items[i].date
                       = Str(Slice(today, 1, 4) \o "-"
                             \o pad(fieldsOf(Get(candidates[i], "date").s)[1]) \o "-"
                             \o pad(fieldsOf(Get(candidates[i], "date").s)[2]))
             /\ yearMonthDay(fieldsOf(Get(candidates[i], "date").s))
                  => mapped.items[i].date
                       = Str(fieldsOf(Get(candidates[i], "date").s)[1] \o "-"
                             \o pad(fieldsOf(Get(candidates[i], "date").s)[2]) \o "-"
                             \o pad(fieldsOf(Get(candidates[i], "date").s)[3]))

-----------------------------------------------------------------------------
(* Category keywords *)

\* the keywords of the specification and the category each resolves to
statedKeywords ==
    << <<"takeaway", "food">>, <<"eating out", "food">>, <<"groceries", "groceries">>,
       <<"transfer", "transfers">>, <<"payment", "transfers">>,
       <<"entertainment", "entertainment">>, <<"transport", "vehicle">>,
       <<"health", "health">>, <<"education", "education">>, <<"shopping", "shopping">>,
       <<"travel", "travel">> >>

\* C22, as the specification states it: when no override matches the
\* description, a category text that contains one of the stated keywords
\* resolves to that keyword's category, "travel" to travel among them.  No
\* revision of mapCategory has a rule for "travel".
C22_StatedKeywords ==
    (Returned /\ mapped.some)
    => \A i \in categorized :
          matches(textOf(candidates[i], descriptionKey(rev)), overrideRules) = {}
          => \A k \in 1..Len(statedKeywords) :
                includes(textOf(candidates[i], categoryKey(rev)), statedKeywords[k][1])
                => mapped.items[i].category = statedKeywords[k][2]

-----------------------------------------------------------------------------
(* From the reply to the candidates *)

\* the provider's reply reached the handler as text
Replied == Post /\ Responded /\ upstream.kind = "body" /\ upstream.path = textPath(rev)

\* the reply is the text of one JSON value, an array or an object
oneValue ==
    /\ JSONparse(upstream.text).ok
    /\ JSONparse(upstream.text).v.t \in {"array", "object"}

\* the sequence the specification makes of a parsed value
coerced(v) ==
    IF v.t = "array" THEN v.items
    ELSE IF Get(v, "transactions").t = "array" THEN Get(v, "transactions").items
    ELSE <<v>>

\* C23, as the specification states it: in every revision an array is used
\* as it is, an object with a transactions field gives that field's elements,
\* and any other object is taken as the only element, so that a reply of one
\* transaction object yields one record.  Most revisions look for an array only.
C23_Coercion ==
    (Replied /\ oneValue)
    => /\ parsed = Some(coerced(JSONparse(upstream.text).v))
       /\ (JSONparse(upstream.text).v.t = "object"
             /\ qualifies(rev, JSONparse(upstream.text).v)
             /\ ~mapCategoryThrows(Get(JSONparse(upstream.text).v, descriptionKey(rev)),
                                   Get(JSONparse(upstream.text).v, categoryKey(rev))))
            => Len(transactions) = 1

\* the revisions that search the reply for an array (geminiSplit parses the
\* reply as it is)
searchesArray == rev # "geminiSplit"

\* C24, as the specification states it: in every revision that searches for
\* an array, what is parsed runs from the first opening bracket to the last
\* closing one, so an array whose elements hold arrays is extracted whole.
\* The lazy pattern of llama and llava stops at the first closing bracket.
C24_ArrayExtractedWhole ==
    (Replied /\ searchesArray /\ oneValue /\ JSONparse(upstream.text).v.t = "array")
    => parsed = Some(JSONparse(upstream.text).v.items)

\* the transaction list the handler returns when the reply is the text ts
listOf(ts) ==
    tryCatch(onUpstream(rev, Body(textPath(rev), ts), today, members).out).resp.body.transactions

\* C25, as the specification states it: in every revision an array alone, the
\* same array in a fence tagged json and the same array with prose around
\* it give the same transaction list.  The Gemini revision with members
\* parses the reply as it is.
C25_WrappingIgnored ==
    (Replied /\ oneValue /\ JSONparse(upstream.text).v.t = "array")
    => /\ listOf(Fenced(upstream.text)) = transactions
       /\ listOf(InProse(upstream.text)) = transactions

-----------------------------------------------------------------------------
(* The upstream call *)

\* C26: a request makes at most one upstream call: none for a method other
\* than POST, for a missing credential or for a rejected image (status 400);
\* one for a POST that got as far as the provider, made before anything is
\* parsed; a call that failed is not made again.
C26_OneUpstreamCall ==
    /\ upstreamCalls \in {0, 1}
    /\ pc = "idle" => upstreamCalls = 0
    /\ (Responded /\ (request.method # "POST" \/ ~Configured \/ response.status = 400))
          => upstreamCalls = 0 /\ upstream = NoUpstream
    /\ pc = "awaiting"
          => /\ upstreamCalls = 1 /\ upstream = NoUpstream
             /\ parsed = None /\ mapped = None /\ response = NoResponse
    /\ (Responded /\ upstream # NoUpstream) => upstreamCalls = 1 /\ Post /\ Configured
    /\ (Responded /\ (parsed.some \/ mapped.some)) => upstream.kind = "body"

\* the provider answered with an error status and was not called again
C26_Witness ==
    /\ Responded /\ Post /\ upstream.kind = "status"
    /\ upstreamCalls = 1
    /\ response.status = 500

-----------------------------------------------------------------------------
(* Malformed elements *)

\* an element the handlers can read as a candidate: an object whose
\* description and category, when it has them, are strings
wellFormed(tx) ==
    /\ tx.t = "object"
    /\ Get(tx, descriptionKey(rev)).t \in {"string", "undefined"}
    /\ Get(tx, categoryKey(rev)).t \in {"string", "undefined"}

\* the transaction list the handler returns for the array xs
listOfArray(xs) ==
    tryCatch(normalize(rev, contentOf(rev, upstream), [kind |-> "array", items |-> xs],
                       today, members).out).resp.body.transactions

\* C27, as the specification states it: a malformed element (null, or an
\* object whose description or category is not a string) is dropped on its
\* own, so the response holds what the well-formed elements of the array
\* give.  In the handlers reading such an element throws inside the inner
\* try, and the whole array is lost.
C27_MalformedDroppedAlone ==
    (Replied /\ parsed.some)
    => transactions = listOfArray(SelectSeq(parsed.items, wellFormed))

-----------------------------------------------------------------------------
(* Response headers *)

\* the value a response declares for a header
headerValues(name) == {h[2] : h \in {g \in response.headers : g[1] = name}}

\* C28: every response the handler returns, whatever the path, carries
\* Access-Control-Allow-Origin: *, Access-Control-Allow-Methods and
\* Access-Control-Allow-Headers, and every response but the one to OPTIONS
\* declares Content-Type application/json.
C28_HeadersOnEveryPath ==
    (Responded /\ ~escaped)
    => /\ headerValues("Access-Control-Allow-Origin") = {"*"}
       /\ headerValues("Access-Control-Allow-Methods") = {"GET, POST, OPTIONS"}
       /\ headerValues("Access-Control-Allow-Headers") = {"Content-Type"}
       /\ request.method # "OPTIONS" => headerValues("Content-Type") = {"application/json"}
       /\ response.status \in {200, 400, 405, 500}

\* the provider could not be reached: the catch block's response has the
\* headers too
C28_Witness ==
    /\ Responded /\ Post /\ upstream.kind = "throws"
    /\ response.status = 500
    /\ corsHeaders \subseteq response.headers
    /\ <<"Content-Type", "application/json">> \in response.headers

-----------------------------------------------------------------------------
(* The probe and the credential *)

\* a POST handled in the environment of this invocation is not turned away
\* for its configuration
passesCheck ==
    \A b \in Bodies(rev) :
        postStart(rev, env, [method |-> "POST", body |-> b]).resp # configError(rev)

\* C29, as the specification states it: in every revision the flag the GET
\* probe reports is true exactly when a POST in the same environment passes
\* the credential check.  The Gemini revision with members reports
\* OPENROUTER_API_KEY and tests GEMINI_API_KEY.
C29_ProbeTellsTheCheck ==
    (Responded /\ request.method = "GET")
    => (response.body.flag <=> passesCheck)

-----------------------------------------------------------------------------
(* Standard records next to custom-split records *)

\* a record that is not a custom-split record
standard(r) == ~customSplit(r)

\* the positions of the standard records with no earlier standard duplicate
standardFirsts(records) ==
    {i \in 1..Len(records) :
        /\ standard(records[i])
        /\ \A j \in 1..(i - 1) : standard(records[j]) => ~duplicates(records[j], records[i])}

\* C30, as the specification states it: in the revision that supports custom
\* splits a standard record is removed only when an earlier standard record
\* has the same date, the same description and an amount within 0.01; a
\* custom-split record never causes a standard record to be removed.  The
\* handler's findIndex runs over all records, custom ones included.
C30_CustomNeverRemovesStandard ==
    (Returned /\ mapped.some /\ rev = "nemotron")
    => /\ Len(SelectSeq(transactions, standard)) = Cardinality(standardFirsts(mapped.items))
       /\ \A n \in 1..Len(SelectSeq(transactions, standard)) :
             SelectSeq(transactions, standard)[n] = mapped.items[nth(standardFirsts(mapped.items), n)]

====
